---- MODULE Spec2Model ----
(***************************************************************************)
(* Model of src/src/audio/pitch-detector.js (class PitchDetector): the     *)
(* autocorrelation estimator autoCorrelate and the consistency filter      *)
(* detectPitch / reset / setSensitivity over pitchHistory.                 *)
(*                                                                         *)
(* Numbers.  Samples and the three estimator thresholds are held in        *)
(* hundredths (0.05 is 5, 0.92 is 92, the literal 1 is One = 100), so the  *)
(* estimator's comparisons are exact integer comparisons.  Frequencies and *)
(* pitchTolerance are integers in Hz; the sample rates are multiples of    *)
(* every lag the frames can select, so sampleRate / bestOffset is exact.   *)
(* The mean sum / historySize is kept as the fraction <<num, den>>.        *)
(***************************************************************************)
EXTENDS Integers, Sequences, FiniteSets, TLC

(* ---------------------------- bounds ----------------------------------- *)
\* largest historySize a setSensitivity call installs
MaxHistorySize == 3
\* longest run of plausible readings without a clearing event
MaxStreak == 6
\* longest run of plausible detectPitch readings between direct autoCorrelate calls
MaxInterleaved == 1
\* longest sequence of frames recorded on one detector and replayed on another
MaxReplay == 6
\* longest run of plausible readings of either of two detectors used side by side
MaxPairStreak == 2
\* most start() calls of the pitch-detector component awaiting the microphone
MaxPendingStarts == 2
\* most microphone streams live at once
MaxStreams == 3
\* most polls of the detection loop in one behaviour
MaxPolls == 3
\* most tones of the playback module awaited, sounding or awaiting their timeout
MaxTones == 3
\* most playNote() calls of the note player in one behaviour
MaxNoteCalls == 4
\* most toggleMonitoring() calls of the voice-feedback component in progress
MaxMonitorAwaits == 2

(* ----------------------- program constants ----------------------------- *)
DefaultHistorySize == 5
DefaultPitchTolerance == 10
DefaultRmsThreshold == 5
DefaultCorrelationThreshold == 92
DefaultMinCorrelationQuality == 5
One == 100
MinFrequency == 60
MaxFrequency == 1000
NoPitch == -1

VARIABLES
  sampleRate,             \* this.sampleRate
  pitchHistory,           \* this.pitchHistory
  historySize,            \* this.historySize
  pitchTolerance,         \* this.pitchTolerance
  rmsThreshold,           \* this.rmsThreshold        (hundredths)
  correlationThreshold,   \* this.correlationThreshold (hundredths)
  minCorrelationQuality,  \* this.minCorrelationQuality (hundredths)
  lastOp,                 \* the method that ran last
  ret,                    \* what that call returned
  lastRaw,                \* the raw estimate `frequency` of the last detectPitch
  streak,                 \* plausible raw estimates supplied since the last
                          \* clearing event (observer, not program state)
  prevHistory,            \* pitchHistory on entry to the last detectPitch call,
                          \* empty after any other call (observer)
  lastBuffer,             \* the buffer of the last autoCorrelate evaluation
  clearedNonEmpty,        \* the last call was reset or setSensitivity and found
                          \* pitchHistory non-empty (observer)
  memo,                   \* the first direct autoCorrelate call under the current
                          \* configuration: buffer, result, pitchHistory (observer)
  peer,                   \* a second PitchDetector instance: its fields and its
                          \* observers, as a record
  caller,                 \* the code using the detectors: which instance the
                          \* variables above hold, and the calls it has logged
  component,              \* the fields of the PitchDetector component
  playback,               \* the fields of the PlaybackModule component
  notePlayer,             \* the fields of the NotePlayer component
  voiceFeedback,          \* the fields of the VoiceFeedback component
  browser                 \* what the components have set going in the browser:
                          \* streams, contexts, callbacks, timers, events

\* the variables of the user-interface components
componentVars == <<component, playback, notePlayer, voiceFeedback, browser>>

\* the variables of the detectors and of the code calling them
detectorVars == <<sampleRate, pitchHistory, historySize, pitchTolerance, rmsThreshold,
                  correlationThreshold, minCorrelationQuality, lastOp, ret, lastRaw,
                  streak, prevHistory, lastBuffer, clearedNonEmpty, memo, peer, caller>>

vars == <<sampleRate, pitchHistory, historySize, pitchTolerance, rmsThreshold,
          correlationThreshold, minCorrelationQuality, lastOp, ret, lastRaw, streak,
          prevHistory, lastBuffer, clearedNonEmpty, memo, peer, caller, componentVars>>

config == <<historySize, pitchTolerance, rmsThreshold, correlationThreshold,
            minCorrelationQuality>>

(* ----------------------------- inputs ---------------------------------- *)
\* sample rates a detector is constructed with
SampleRates == {120, 180, 3000}

\* 8-sample frames, samples in hundredths
FrameSilence == <<0, 0, 0, 0, 0, 0, 0, 0>>
FrameQuiet   == <<2, -2, 2, -2, 2, -2, 2, -2>>
FramePeriod2 == <<50, -50, 50, -50, 50, -50, 50, -50>>
FramePeriod3 == <<50, 0, -50, 50, 0, -50, 50, 0>>
FrameNoise   == <<50, -50, 0, 50, 50, -50, 0, 0>>
Frames == {FrameSilence, FrameQuiet, FramePeriod2, FramePeriod3, FrameNoise}

\* further frames for direct autoCorrelate calls
FramePeriod4     == <<50, 50, -50, -50, 50, 50, -50, -50>>
FrameAtThreshold == <<5, -5, 5, -5, 5, -5, 5, -5>>
FrameTwoPeaks    == <<46, 54, 50, 46, 54, 50, 46, 50>>
FrameWeak        == <<46, 46, 46, 48, 46, 48, 46, 50>>
FramePeriod2Long == <<50, -50, 50, -50, 50, -50, 50, -50, 50, -50>>
FramesAC == Frames \cup {FramePeriod4, FrameAtThreshold, FrameTwoPeaks, FrameWeak,
                         FramePeriod2Long}

PitchTolerances == {0, 15, 20}
RmsThresholds == {0, DefaultRmsThreshold}
CorrelationThresholds == {30, DefaultCorrelationThreshold}
MinCorrelationQualities == {0, DefaultMinCorrelationQuality}

\* settings objects handed to setSensitivity; an absent key is `undefined`
Settings ==
  {<<>>}
  \cup {[historySize |-> h] : h \in 0..MaxHistorySize}
  \cup {[pitchTolerance |-> t] : t \in PitchTolerances}
  \cup {[historySize |-> h, pitchTolerance |-> t] : h \in 1..MaxHistorySize, t \in PitchTolerances}
  \cup {[rmsThreshold |-> 0], [correlationThreshold |-> 30], [minCorrelationQuality |-> 0]}
  \cup {[historySize |-> DefaultHistorySize, pitchTolerance |-> DefaultPitchTolerance,
         rmsThreshold |-> DefaultRmsThreshold,
         correlationThreshold |-> DefaultCorrelationThreshold,
         minCorrelationQuality |-> DefaultMinCorrelationQuality]}

(* --------------------------- return values ----------------------------- *)
Null      == [kind |-> "null", num |-> 0, den |-> 1]
Undefined == [kind |-> "undefined", num |-> 0, den |-> 1]
Thrown    == [kind |-> "throw", num |-> 0, den |-> 1]
Number(n, d) == [kind |-> "number", num |-> n, den |-> d]
NoMemo == [buffer |-> <<>>, result |-> NoPitch, history |-> <<>>]

\* no second instance exists
NoPeer == <<>>
\* a caller that uses one detector and keeps no log
Alone == [mode |-> "off", turn |-> 1, log |-> <<>>]

(* ----------------------------- helpers --------------------------------- *)
Abs(x) == IF x < 0 THEN -x ELSE x

RECURSIVE Sum(_)
Sum(s) == IF s = <<>> THEN 0 ELSE Head(s) + Sum(Tail(s))

(* --------------------------- autoCorrelate ----------------------------- *)
MAX_SAMPLES(buffer) == Len(buffer) \div 2

\* rms accumulated by the loop of lines 31-34 (sum of squares, hundredths^2)
RECURSIVE SumSquares(_, _)
SumSquares(buffer, i) ==
  IF i >= Len(buffer) THEN 0
  ELSE buffer[i + 1] * buffer[i + 1] + SumSquares(buffer, i + 1)

\* variant: a frame exactly at the threshold counts as too quiet
TooQuietInclusive(buffer) ==
  SumSquares(buffer, 0) <= rmsThreshold * rmsThreshold * Len(buffer)

\* rms < this.rmsThreshold with rms = sqrt(sum / SIZE): both sides squared
TooQuiet(buffer) ==
  /\ rmsThreshold > 0
  /\ SumSquares(buffer, 0) < rmsThreshold * rmsThreshold * Len(buffer)

\* inner loop of lines 46-48: sum of |buffer[i] - buffer[i + offset]|
RECURSIVE SumAbsDiff(_, _, _)
SumAbsDiff(buffer, offset, i) ==
  IF i >= MAX_SAMPLES(buffer) THEN 0
  ELSE Abs(buffer[i + 1] - buffer[i + offset + 1]) + SumAbsDiff(buffer, offset, i + 1)

\* correlation = 1 - correlation / MAX_SAMPLES, in units of 1/(100 * MAX_SAMPLES)
Correlation(buffer, offset) ==
  One * MAX_SAMPLES(buffer) - SumAbsDiff(buffer, offset, 0)

\* variant: the first peak is kept, later peaks never replace it
SearchStepFirst(buffer, offset, acc) ==
  LET correlation == Correlation(buffer, offset)
      isPeak == /\ correlation > correlationThreshold * MAX_SAMPLES(buffer)
                /\ correlation > acc.lastCorrelation
      foundGoodCorrelation == correlation - acc.lastCorrelation
  IN  IF isPeak /\ acc.bestOffset = -1
      THEN [bestOffset |-> offset, bestCorrelation |-> foundGoodCorrelation,
            lastCorrelation |-> correlation]
      ELSE [acc EXCEPT !.lastCorrelation = correlation]

\* variant: lastCorrelation is refreshed only when a new best is found
SearchStepStale(buffer, offset, acc) ==
  LET correlation == Correlation(buffer, offset)
      isPeak == /\ correlation > correlationThreshold * MAX_SAMPLES(buffer)
                /\ correlation > acc.lastCorrelation
      foundGoodCorrelation == correlation - acc.lastCorrelation
  IN  IF isPeak /\ foundGoodCorrelation > acc.bestCorrelation
      THEN [bestOffset |-> offset, bestCorrelation |-> foundGoodCorrelation,
            lastCorrelation |-> correlation]
      ELSE acc

\* variant: a later peak with an equal rise replaces the best one
SearchStepLatest(buffer, offset, acc) ==
  LET correlation == Correlation(buffer, offset)
      isPeak == /\ correlation > correlationThreshold * MAX_SAMPLES(buffer)
                /\ correlation > acc.lastCorrelation
      foundGoodCorrelation == correlation - acc.lastCorrelation
  IN  IF isPeak /\ foundGoodCorrelation >= acc.bestCorrelation
      THEN [bestOffset |-> offset, bestCorrelation |-> foundGoodCorrelation,
            lastCorrelation |-> correlation]
      ELSE [acc EXCEPT !.lastCorrelation = correlation]

\* one iteration of the offset loop, lines 51-59
SearchStep(buffer, offset, acc) ==
  LET correlation == Correlation(buffer, offset)
      isPeak == /\ correlation > correlationThreshold * MAX_SAMPLES(buffer)
                /\ correlation > acc.lastCorrelation
      foundGoodCorrelation == correlation - acc.lastCorrelation
  IN  IF isPeak /\ foundGoodCorrelation > acc.bestCorrelation
      THEN [bestOffset |-> offset, bestCorrelation |-> foundGoodCorrelation,
            lastCorrelation |-> correlation]
      ELSE [acc EXCEPT !.lastCorrelation = correlation]

\* variant: the loop also visits offset MAX_SAMPLES
InSearchRangeInclusive(buffer, offset) == offset <= MAX_SAMPLES(buffer)

\* the loop condition of line 42
InSearchRange(buffer, offset) == offset < MAX_SAMPLES(buffer)

\* the offset loop, lines 42-60
RECURSIVE SearchOffsets(_, _, _)
SearchOffsets(buffer, offset, acc) ==
  IF InSearchRange(buffer, offset)
  THEN SearchOffsets(buffer, offset + 1, SearchStep(buffer, offset, acc))
  ELSE acc

\* variant: lastCorrelation is seeded with 0
SearchSeedZero(buffer) ==
  [bestOffset |-> -1, bestCorrelation |-> 0, lastCorrelation |-> 0]

\* lines 26, 27 and 41: bestOffset, bestCorrelation, lastCorrelation before the loop
SearchSeed(buffer) ==
  [bestOffset |-> -1, bestCorrelation |-> 0,
   lastCorrelation |-> One * MAX_SAMPLES(buffer)]

\* the three locals when the loop of lines 42-60 has ended
Search(buffer) == SearchOffsets(buffer, 1, SearchSeed(buffer))

\* variant: a rising step equal to minCorrelationQuality is rejected
BelowQualityInclusive(buffer, best) ==
  best.bestCorrelation <= minCorrelationQuality * MAX_SAMPLES(buffer)

\* line 65: bestCorrelation < this.minCorrelationQuality
BelowQuality(buffer, best) ==
  best.bestCorrelation < minCorrelationQuality * MAX_SAMPLES(buffer)

autoCorrelate(buffer) ==
  IF TooQuiet(buffer) THEN NoPitch
  ELSE LET best == Search(buffer)
       IN  IF best.bestOffset = -1 THEN NoPitch
           ELSE IF BelowQuality(buffer, best) THEN NoPitch
                ELSE sampleRate \div best.bestOffset

(* ----------------------------- detectPitch ----------------------------- *)
\* variant: the floor of the range is not tested
PlausibleNoFloor(frequency) == ~(frequency > MaxFrequency)

\* variant: the ceiling of the range is not tested
PlausibleNoCeiling(frequency) == ~(frequency < MinFrequency)

\* variant: both ends of the range are excluded
PlausibleStrict(frequency) == frequency > MinFrequency /\ frequency < MaxFrequency

\* negation of the test of line 80
Plausible(frequency) == ~(frequency < MinFrequency \/ frequency > MaxFrequency)

\* variant: a bad detection leaves the history as it was
OnBadDetectionKeep(h) == h

\* line 81: the history after a bad detection
OnBadDetection(h) == <<>>

\* variant: the push is never followed by a shift
PushHistoryNoShift(h, frequency) == Append(h, frequency)

\* variant: pop() instead of shift(), the newest entry is evicted
PushHistoryPop(h, frequency) ==
  LET pushed == Append(h, frequency)
  IN  IF Len(pushed) > historySize THEN SubSeq(pushed, 1, Len(pushed) - 1) ELSE pushed

\* lines 86-89: push, then shift when over capacity
PushHistory(h, frequency) ==
  LET pushed == Append(h, frequency)
  IN  IF Len(pushed) > historySize THEN Tail(pushed) ELSE pushed

\* variant: the history counts as full one reading early
NotEnoughReadingsEarly(h) == Len(h) < historySize - 1

\* line 92
NotEnoughReadings(h) == Len(h) < historySize

\* variant: the reduction skips the first entry
avgFreqSkipFirst(h) == [num |-> Sum(Tail(h)), den |-> historySize]

\* line 97: reduce((a, b) => a + b) / historySize, as the fraction num / den
avgFreq(h) == [num |-> Sum(h), den |-> historySize]

\* variant: the tolerance test is not strict
isConsistentInclusive(h, avg) ==
  \A i \in 1..Len(h) : Abs(h[i] * avg.den - avg.num) <= pitchTolerance * avg.den

\* lines 98-100: every |freq - avgFreq| < pitchTolerance, scaled by den > 0
isConsistent(h, avg) ==
  \A i \in 1..Len(h) : Abs(h[i] * avg.den - avg.num) < pitchTolerance * avg.den

\* variant: an inconsistent full window is cleared
FilterResultClearing(frequency) ==
  IF ~Plausible(frequency)
  THEN [history |-> OnBadDetection(pitchHistory), ret |-> Null]
  ELSE LET h == PushHistory(pitchHistory, frequency)
       IN  IF NotEnoughReadings(h) THEN [history |-> h, ret |-> Null]
           ELSE IF h = <<>> THEN [history |-> h, ret |-> Thrown]
           ELSE LET avg == avgFreq(h)
                IN  IF isConsistent(h, avg)
                    THEN [history |-> h, ret |-> Number(avg.num, avg.den)]
                    ELSE [history |-> <<>>, ret |-> Null]

\* the filter part of detectPitch, lines 79-102, on the raw estimate
FilterResult(frequency) ==
  IF ~Plausible(frequency)
  THEN [history |-> OnBadDetection(pitchHistory), ret |-> Null]
  ELSE LET h == PushHistory(pitchHistory, frequency)
       IN  IF NotEnoughReadings(h) THEN [history |-> h, ret |-> Null]
           ELSE IF h = <<>> THEN [history |-> h, ret |-> Thrown]
           ELSE LET avg == avgFreq(h)
                IN  [history |-> h,
                     ret |-> IF isConsistent(h, avg) THEN Number(avg.num, avg.den)
                             ELSE Null]

\* the plausible range as the specification states it (observer side)
InRange(f) == f >= 60 /\ f <= 1000

\* the caller's log after a detectPitch call: the call is appended while
\* recording and ticked off while replaying
Logged(dataArray, out) ==
  IF caller.mode = "record"
  THEN [caller EXCEPT !.log = Append(@, [frame |-> dataArray, ret |-> out.ret,
                                         history |-> out.history])]
  ELSE IF caller.mode = "replay" THEN [caller EXCEPT !.log = Tail(@)]
  ELSE caller

\* variant: the push also lands in the other instance's history
DetectPitchShared(dataArray) ==
  LET frequency == autoCorrelate(dataArray)
      out == FilterResult(frequency)
  IN  /\ InRange(frequency) => Len(streak) < MaxStreak
      /\ pitchHistory' = out.history
      /\ ret' = out.ret
      /\ lastOp' = "detectPitch"
      /\ lastRaw' = frequency
      /\ streak' = IF InRange(frequency) THEN Append(streak, frequency) ELSE <<>>
      /\ prevHistory' = pitchHistory
      /\ lastBuffer' = dataArray
      /\ clearedNonEmpty' = FALSE
      /\ caller' = Logged(dataArray, out)
      /\ peer' = IF peer = NoPeer THEN peer
                 ELSE [peer EXCEPT !.pitchHistory = out.history]
      /\ UNCHANGED <<sampleRate, config, memo, componentVars>>

DetectPitch(dataArray) ==
  LET frequency == autoCorrelate(dataArray)
      out == FilterResult(frequency)
  IN  /\ InRange(frequency) => Len(streak) < MaxStreak
      /\ pitchHistory' = out.history
      /\ ret' = out.ret
      /\ lastOp' = "detectPitch"
      /\ lastRaw' = frequency
      /\ streak' = IF InRange(frequency) THEN Append(streak, frequency) ELSE <<>>
      /\ prevHistory' = pitchHistory
      /\ lastBuffer' = dataArray
      /\ clearedNonEmpty' = FALSE
      /\ caller' = Logged(dataArray, out)
      /\ UNCHANGED <<sampleRate, config, memo, peer, componentVars>>

\* detectPitch between direct autoCorrelate calls, short runs only
DetectPitchBetween(dataArray) ==
  /\ Len(streak) < MaxInterleaved
  /\ DetectPitch(dataArray)

(* ------------------------ autoCorrelate, called directly --------------- *)
\* variant: the call empties the history
AutoCorrelateClearing(buffer) ==
  LET result == autoCorrelate(buffer)
  IN  /\ lastOp' = "autoCorrelate"
      /\ ret' = Number(result, 1)
      /\ lastRaw' = result
      /\ lastBuffer' = buffer
      /\ memo' = IF memo = NoMemo
                 THEN [buffer |-> buffer, result |-> result, history |-> pitchHistory]
                 ELSE memo
      /\ prevHistory' = <<>>
      /\ clearedNonEmpty' = FALSE
      /\ pitchHistory' = <<>>
      /\ UNCHANGED <<sampleRate, config, streak, peer, caller, componentVars>>

AutoCorrelate(buffer) ==
  LET result == autoCorrelate(buffer)
  IN  /\ lastOp' = "autoCorrelate"
      /\ ret' = Number(result, 1)
      /\ lastRaw' = result
      /\ lastBuffer' = buffer
      /\ memo' = IF memo = NoMemo
                 THEN [buffer |-> buffer, result |-> result, history |-> pitchHistory]
                 ELSE memo
      /\ prevHistory' = <<>>
      /\ clearedNonEmpty' = FALSE
      /\ UNCHANGED <<sampleRate, pitchHistory, config, streak, peer, caller, componentVars>>

(* -------------------------------- reset -------------------------------- *)
\* variant: the newest reading survives the reset
ResetHistoryKeepLast ==
  IF pitchHistory = <<>> THEN <<>> ELSE <<pitchHistory[Len(pitchHistory)]>>

ResetHistory == <<>>

Reset ==
  /\ pitchHistory' = ResetHistory
  /\ ret' = Undefined
  /\ lastOp' = "reset"
  /\ streak' = <<>>
  /\ prevHistory' = <<>>
  /\ clearedNonEmpty' = (pitchHistory # <<>>)
  /\ UNCHANGED <<sampleRate, config, lastRaw, lastBuffer, memo, peer, caller,
                 componentVars>>

(* ---------------------------- setSensitivity --------------------------- *)
Setting(settings, key, old) ==
  IF key \in DOMAIN settings THEN settings[key] ELSE old

\* variant: the settings are installed without the trailing reset()
SetSensitivityNoReset(settings) ==
  /\ historySize' = Setting(settings, "historySize", historySize)
  /\ pitchTolerance' = Setting(settings, "pitchTolerance", pitchTolerance)
  /\ rmsThreshold' = Setting(settings, "rmsThreshold", rmsThreshold)
  /\ correlationThreshold' = Setting(settings, "correlationThreshold", correlationThreshold)
  /\ minCorrelationQuality' = Setting(settings, "minCorrelationQuality", minCorrelationQuality)
  /\ ret' = Undefined
  /\ lastOp' = "setSensitivity"
  /\ streak' = <<>>
  /\ prevHistory' = <<>>
  /\ clearedNonEmpty' = (pitchHistory # <<>>)
  /\ memo' = NoMemo
  /\ UNCHANGED <<sampleRate, lastRaw, lastBuffer, pitchHistory, peer, caller,
                 componentVars>>

SetSensitivity(settings) ==
  /\ historySize' = Setting(settings, "historySize", historySize)
  /\ pitchTolerance' = Setting(settings, "pitchTolerance", pitchTolerance)
  /\ rmsThreshold' = Setting(settings, "rmsThreshold", rmsThreshold)
  /\ correlationThreshold' = Setting(settings, "correlationThreshold", correlationThreshold)
  /\ minCorrelationQuality' = Setting(settings, "minCorrelationQuality", minCorrelationQuality)
  /\ pitchHistory' = ResetHistory
  /\ ret' = Undefined
  /\ lastOp' = "setSensitivity"
  /\ streak' = <<>>
  /\ prevHistory' = <<>>
  /\ clearedNonEmpty' = (pitchHistory # <<>>)
  /\ memo' = NoMemo
  /\ UNCHANGED <<sampleRate, lastRaw, lastBuffer, peer, caller, componentVars>>

(* ------------------------------ behaviour ------------------------------ *)
\* null, as the value of a field that holds an object, a handle or a number
None == 0

\* this.errorMessage = null
NoError == "null"

\* the PitchDetector component as its constructor leaves it (lines 27-45)
ComponentNew ==
  [isActive |-> FALSE, isMonitoring |-> FALSE, currentFrequency |-> None,
   errorMessage |-> NoError, audioContext |-> None, analyser |-> None,
   microphone |-> None, gainNode |-> None, pitchDetector |-> None,
   animationFrame |-> None, stream |-> None]

\* this.volume = 0.3 of the playback module, in hundredths
DefaultVolume == 30

\* the PlaybackModule component as its constructor leaves it
\* (lines 25-39: the constructor ends with initAudioContext(), so a context exists)
PlaybackNew ==
  [audioContext |-> 1, currentOscillator |-> None, currentGainNode |-> None,
   isPlaying |-> FALSE, stopTimeout |-> None, volume |-> DefaultVolume]

\* the NotePlayer component as its constructor leaves it
\* this.playingNote = null
NoNote == "null"

NotePlayerNew == [playingNote |-> NoNote]

\* the VoiceFeedback component as its constructor leaves it
VoiceFeedbackNew ==
  [isActive |-> FALSE, isMonitoring |-> FALSE, errorMessage |-> NoError,
   showHeadphoneWarning |-> FALSE, audioContext |-> None, microphone |-> None,
   gainNode |-> None, stream |-> None]

\* what a VoiceFeedback component has set going in the browser: nothing yet
FeedbackIdle ==
  [starts |-> 0,               \* start() calls awaiting getUserMedia
   monitorStarts |-> 0,        \* toggleMonitoring() calls awaiting their start()
   headphones |-> 0,           \* toggleMonitoring() calls awaiting detectHeadphones()
   resumes |-> <<>>,           \* toggleMonitoring() calls awaiting resume(): the
                               \* context each one asked to resume
   liveStreams |-> {},         \* microphone streams whose tracks are not stopped
   openContexts |-> {},        \* AudioContexts not closed
   running |-> {},             \* the open AudioContexts that are not suspended
   warningTimers |-> 0,        \* headphone-warning timers not yet run
   nullDeref |-> "none"]       \* the null field the last TypeError thrown by
                               \* toggleMonitoring() came from

\* a browser in which the components are attached and have set nothing going
BrowserIdle ==
  [connected |-> TRUE,         \* the pitch-detector component is in the document
   pendingStarts |-> 0,        \* start() calls awaiting getUserMedia
   liveStreams |-> {},         \* microphone streams whose tracks are not stopped
   openContexts |-> {},        \* AudioContexts of the component not closed
   frameRequests |-> {},       \* requestAnimationFrame callbacks not yet run
   polls |-> 0,                \* detectPitch calls made by the detection loop
   updates |-> 0,              \* 'pitch-update' events dispatched
   contextState |-> "suspended", \* state of the playback module's AudioContext
   pendingTones |-> 0,         \* playTone() calls awaiting audioContext.resume()
   sounding |-> {},            \* oscillators started and not yet stopped
   timeouts |-> {},            \* the playback module's setTimeout callbacks not yet run
   lastEvent |-> "none",       \* the playback event dispatched last
   repeatedEvent |-> FALSE,    \* that event was the same as the one before it
   closedTones |-> 0,          \* playTone() calls awaiting resume() of a context
                               \* that cleanup() has closed since
   noteCalls |-> 0,            \* playNote() calls made
   noteTimers |-> <<>>,        \* the note player's setTimeout callbacks not yet
                               \* run, oldest first: note and number of the call
   setBy |-> 0,                \* the playNote call that last set playingNote, 0 if
                               \* none or stopNote came after it
   cleared |-> <<>>,           \* the last clearing by a timer: <<the timer's call,
                               \* the call whose playing state it cleared>>
   feedback |-> FeedbackIdle]  \* what the VoiceFeedback component has set going

\* the user-interface components before anything has used them
ComponentsIdle ==
  /\ component = ComponentNew
  /\ playback = PlaybackNew
  /\ notePlayer = NotePlayerNew
  /\ voiceFeedback = VoiceFeedbackNew
  /\ browser = BrowserIdle

Init ==
  /\ sampleRate \in SampleRates
  /\ pitchHistory = <<>>
  /\ historySize = DefaultHistorySize
  /\ pitchTolerance = DefaultPitchTolerance
  /\ rmsThreshold = DefaultRmsThreshold
  /\ correlationThreshold = DefaultCorrelationThreshold
  /\ minCorrelationQuality = DefaultMinCorrelationQuality
  /\ lastOp = "constructor"
  /\ ret = Undefined
  /\ lastRaw = NoPitch
  /\ streak = <<>>
  /\ prevHistory = <<>>
  /\ lastBuffer = <<>>
  /\ clearedNonEmpty = FALSE
  /\ memo = NoMemo
  /\ peer = NoPeer
  /\ caller = Alone
  /\ ComponentsIdle

Next ==
  \/ \E dataArray \in Frames : DetectPitch(dataArray)
  \/ Reset
  \/ \E settings \in Settings : SetSensitivity(settings)

Spec == Init /\ [][Next]_vars

(* ------------- the estimator called directly, between detections -------- *)
\* a detector whose estimator thresholds were installed by setSensitivity
InitAC ==
  /\ sampleRate \in SampleRates
  /\ pitchHistory = <<>>
  /\ historySize = 1
  /\ pitchTolerance = DefaultPitchTolerance
  /\ rmsThreshold \in RmsThresholds
  /\ correlationThreshold \in CorrelationThresholds
  /\ minCorrelationQuality \in MinCorrelationQualities
  /\ lastOp = "setSensitivity"
  /\ ret = Undefined
  /\ lastRaw = NoPitch
  /\ streak = <<>>
  /\ prevHistory = <<>>
  /\ lastBuffer = <<>>
  /\ clearedNonEmpty = FALSE
  /\ memo = NoMemo
  /\ peer = NoPeer
  /\ caller = Alone
  /\ ComponentsIdle

NextAC ==
  \/ \E buffer \in FramesAC : AutoCorrelate(buffer)
  \/ \E dataArray \in Frames : DetectPitchBetween(dataArray)
  \/ Reset

SpecAC == InitAC /\ [][NextAC]_vars

(* ---------------------- two detector instances ------------------------- *)
\* the fields a constructor call gives a new instance, and its observers
Constructed(rate) ==
  [sampleRate |-> rate, pitchHistory |-> <<>>,
   historySize |-> DefaultHistorySize, pitchTolerance |-> DefaultPitchTolerance,
   rmsThreshold |-> DefaultRmsThreshold,
   correlationThreshold |-> DefaultCorrelationThreshold,
   minCorrelationQuality |-> DefaultMinCorrelationQuality,
   lastOp |-> "constructor", ret |-> Undefined, lastRaw |-> NoPitch,
   streak |-> <<>>, prevHistory |-> <<>>, lastBuffer |-> <<>>,
   clearedNonEmpty |-> FALSE, memo |-> NoMemo]

\* the instance the detector variables hold, as a record
This ==
  [sampleRate |-> sampleRate, pitchHistory |-> pitchHistory,
   historySize |-> historySize, pitchTolerance |-> pitchTolerance,
   rmsThreshold |-> rmsThreshold, correlationThreshold |-> correlationThreshold,
   minCorrelationQuality |-> minCorrelationQuality,
   lastOp |-> lastOp, ret |-> ret, lastRaw |-> lastRaw,
   streak |-> streak, prevHistory |-> prevHistory, lastBuffer |-> lastBuffer,
   clearedNonEmpty |-> clearedNonEmpty, memo |-> memo]

\* variant: pitchHistory is one array shared by all instances
SwitchInstanceShared ==
  /\ peer # NoPeer
  /\ caller.mode # "replay"
  /\ sampleRate' = peer.sampleRate
  /\ pitchHistory' = pitchHistory
  /\ historySize' = peer.historySize
  /\ pitchTolerance' = peer.pitchTolerance
  /\ rmsThreshold' = peer.rmsThreshold
  /\ correlationThreshold' = peer.correlationThreshold
  /\ minCorrelationQuality' = peer.minCorrelationQuality
  /\ lastOp' = peer.lastOp
  /\ ret' = peer.ret
  /\ lastRaw' = peer.lastRaw
  /\ streak' = peer.streak
  /\ prevHistory' = peer.prevHistory
  /\ lastBuffer' = peer.lastBuffer
  /\ clearedNonEmpty' = peer.clearedNonEmpty
  /\ memo' = peer.memo
  /\ peer' = This
  /\ caller' = [caller EXCEPT !.turn = 3 - @,
                              !.mode = IF @ = "record" THEN "replay" ELSE @]
  /\ UNCHANGED componentVars

\* the caller turns to its other instance: every `this.` field of the methods
\* now refers to that instance, whose fields are its own (lines 6-15 assign
\* each of them in the constructor); a recording caller starts replaying
SwitchInstance ==
  /\ peer # NoPeer
  /\ caller.mode # "replay"
  /\ sampleRate' = peer.sampleRate
  /\ pitchHistory' = peer.pitchHistory
  /\ historySize' = peer.historySize
  /\ pitchTolerance' = peer.pitchTolerance
  /\ rmsThreshold' = peer.rmsThreshold
  /\ correlationThreshold' = peer.correlationThreshold
  /\ minCorrelationQuality' = peer.minCorrelationQuality
  /\ lastOp' = peer.lastOp
  /\ ret' = peer.ret
  /\ lastRaw' = peer.lastRaw
  /\ streak' = peer.streak
  /\ prevHistory' = peer.prevHistory
  /\ lastBuffer' = peer.lastBuffer
  /\ clearedNonEmpty' = peer.clearedNonEmpty
  /\ memo' = peer.memo
  /\ peer' = This
  /\ caller' = [caller EXCEPT !.turn = 3 - @,
                              !.mode = IF @ = "record" THEN "replay" ELSE @]
  /\ UNCHANGED componentVars

\* frames fed to detectors that are compared with each other
ReplayFrames == {FrameSilence, FramePeriod2, FramePeriod3}

\* the caller feeds a frame to the first instance and logs the call
RecordStep(dataArray) ==
  /\ caller.mode = "record"
  /\ Len(caller.log) < MaxReplay
  /\ DetectPitch(dataArray)

\* the caller feeds the second instance the next frame of its log
ReplayStep ==
  /\ caller.mode = "replay"
  /\ caller.log # <<>>
  /\ DetectPitch(Head(caller.log).frame)

\* two new detectors of one sample rate; the caller records on the first
InitReplay ==
  /\ sampleRate \in SampleRates
  /\ pitchHistory = <<>>
  /\ historySize = DefaultHistorySize
  /\ pitchTolerance = DefaultPitchTolerance
  /\ rmsThreshold = DefaultRmsThreshold
  /\ correlationThreshold = DefaultCorrelationThreshold
  /\ minCorrelationQuality = DefaultMinCorrelationQuality
  /\ lastOp = "constructor"
  /\ ret = Undefined
  /\ lastRaw = NoPitch
  /\ streak = <<>>
  /\ prevHistory = <<>>
  /\ lastBuffer = <<>>
  /\ clearedNonEmpty = FALSE
  /\ memo = NoMemo
  /\ peer = Constructed(sampleRate)
  /\ caller = [mode |-> "record", turn |-> 1, log |-> <<>>]
  /\ ComponentsIdle

NextReplay ==
  \/ \E dataArray \in ReplayFrames : RecordStep(dataArray)
  \/ SwitchInstance
  \/ ReplayStep

SpecReplay == InitReplay /\ [][NextReplay]_vars

\* settings the caller installs on either of its two instances
PairSettings == {[historySize |-> 1], [historySize |-> 2, pitchTolerance |-> 20]}

\* detectPitch on the instance the caller has turned to, short runs only
DetectPitchPair(dataArray) ==
  /\ Len(streak) < MaxPairStreak
  /\ DetectPitch(dataArray)

\* sample rates the second of two detectors is constructed with
PeerRates == {180}

\* two new detectors, each with a sample rate of its own
InitPair ==
  /\ sampleRate \in SampleRates
  /\ pitchHistory = <<>>
  /\ historySize = DefaultHistorySize
  /\ pitchTolerance = DefaultPitchTolerance
  /\ rmsThreshold = DefaultRmsThreshold
  /\ correlationThreshold = DefaultCorrelationThreshold
  /\ minCorrelationQuality = DefaultMinCorrelationQuality
  /\ lastOp = "constructor"
  /\ ret = Undefined
  /\ lastRaw = NoPitch
  /\ streak = <<>>
  /\ prevHistory = <<>>
  /\ lastBuffer = <<>>
  /\ clearedNonEmpty = FALSE
  /\ memo = NoMemo
  /\ peer \in {Constructed(rate) : rate \in PeerRates}
  /\ caller = Alone
  /\ ComponentsIdle

NextPair ==
  \/ \E dataArray \in ReplayFrames : DetectPitchPair(dataArray)
  \/ Reset
  \/ \E settings \in PairSettings : SetSensitivity(settings)
  \/ SwitchInstance

SpecPair == InitPair /\ [][NextPair]_vars

(* ------------- a reset detector beside a new one ------------------------ *)
\* a new detector given the configuration of this one through setSensitivity
ConstructedAlike ==
  [Constructed(sampleRate) EXCEPT
     !.historySize = historySize, !.pitchTolerance = pitchTolerance,
     !.rmsThreshold = rmsThreshold, !.correlationThreshold = correlationThreshold,
     !.minCorrelationQuality = minCorrelationQuality, !.lastOp = "setSensitivity"]

\* detectPitch on the detector in use, before it is reset
DetectPitchBefore(dataArray) ==
  /\ caller.mode = "off"
  /\ DetectPitch(dataArray)

\* setSensitivity on the detector in use
SetSensitivityBefore(settings) ==
  /\ caller.mode = "off"
  /\ SetSensitivity(settings)

\* reset() on the detector in use, also straight after a reset() and between
\* the calls that are recorded
ResetInUse ==
  /\ caller.mode # "replay"
  /\ caller.log = <<>>
  /\ Reset

\* after reset() the caller constructs a second detector, configures it alike
\* and starts recording the calls it makes on the reset one
CompareWithNew ==
  /\ caller.mode = "off"
  /\ lastOp = "reset"
  /\ peer' = ConstructedAlike
  /\ caller' = [caller EXCEPT !.mode = "record"]
  /\ UNCHANGED <<sampleRate, pitchHistory, config, lastOp, ret, lastRaw, streak,
                 prevHistory, lastBuffer, clearedNonEmpty, memo, componentVars>>

\* one new detector in use
InitReset ==
  /\ sampleRate \in SampleRates
  /\ pitchHistory = <<>>
  /\ historySize = DefaultHistorySize
  /\ pitchTolerance = DefaultPitchTolerance
  /\ rmsThreshold = DefaultRmsThreshold
  /\ correlationThreshold = DefaultCorrelationThreshold
  /\ minCorrelationQuality = DefaultMinCorrelationQuality
  /\ lastOp = "constructor"
  /\ ret = Undefined
  /\ lastRaw = NoPitch
  /\ streak = <<>>
  /\ prevHistory = <<>>
  /\ lastBuffer = <<>>
  /\ clearedNonEmpty = FALSE
  /\ memo = NoMemo
  /\ peer = NoPeer
  /\ caller = Alone
  /\ ComponentsIdle

NextReset ==
  \/ \E dataArray \in ReplayFrames : DetectPitchBefore(dataArray)
  \/ \E settings \in PairSettings : SetSensitivityBefore(settings)
  \/ ResetInUse
  \/ CompareWithNew
  \/ \E dataArray \in ReplayFrames : RecordStep(dataArray)
  \/ SwitchInstance
  \/ ReplayStep

SpecReset == InitReset /\ [][NextReset]_vars

(* ------------------------- sine-wave frames ---------------------------- *)
\* the detector's sample rate in the pitch-detector component
ComponentSampleRate == 48000
\* samples per sine frame
SineFrameLen == 48
\* latest sample of the sine at which a frame handed to autoCorrelate starts
MaxSineStart == 11

\* 100 * sin(2 * pi * j / 2400) rounded to the nearest integer, j = 0..600:
\* a quarter of one cycle in steps of 1/2400 cycle, in hundredths
SineQuarter ==
  <<0, 0, 1, 1, 1, 1, 2, 2, 2, 2, 3, 3, 3, 3, 4, 4, 4, 4, 5, 5,
   5, 5, 6, 6, 6, 7, 7, 7, 7, 8, 8, 8, 8, 9, 9, 9, 9, 10, 10, 10,
   10, 11, 11, 11, 11, 12, 12, 12, 13, 13, 13, 13, 14, 14, 14, 14, 15, 15, 15, 15,
   16, 16, 16, 16, 17, 17, 17, 17, 18, 18, 18, 18, 19, 19, 19, 20, 20, 20, 20, 21,
   21, 21, 21, 22, 22, 22, 22, 23, 23, 23, 23, 24, 24, 24, 24, 25, 25, 25, 25, 26,
   26, 26, 26, 27, 27, 27, 27, 28, 28, 28, 28, 29, 29, 29, 29, 30, 30, 30, 30, 31,
   31, 31, 31, 32, 32, 32, 32, 33, 33, 33, 33, 34, 34, 34, 34, 35, 35, 35, 35, 36,
   36, 36, 36, 37, 37, 37, 37, 38, 38, 38, 38, 39, 39, 39, 39, 39, 40, 40, 40, 40,
   41, 41, 41, 41, 42, 42, 42, 42, 43, 43, 43, 43, 44, 44, 44, 44, 44, 45, 45, 45,
   45, 46, 46, 46, 46, 47, 47, 47, 47, 47, 48, 48, 48, 48, 49, 49, 49, 49, 50, 50,
   50, 50, 50, 51, 51, 51, 51, 52, 52, 52, 52, 52, 53, 53, 53, 53, 54, 54, 54, 54,
   54, 55, 55, 55, 55, 56, 56, 56, 56, 56, 57, 57, 57, 57, 58, 58, 58, 58, 58, 59,
   59, 59, 59, 59, 60, 60, 60, 60, 60, 61, 61, 61, 61, 61, 62, 62, 62, 62, 63, 63,
   63, 63, 63, 64, 64, 64, 64, 64, 65, 65, 65, 65, 65, 66, 66, 66, 66, 66, 67, 67,
   67, 67, 67, 67, 68, 68, 68, 68, 68, 69, 69, 69, 69, 69, 70, 70, 70, 70, 70, 71,
   71, 71, 71, 71, 71, 72, 72, 72, 72, 72, 73, 73, 73, 73, 73, 73, 74, 74, 74, 74,
   74, 74, 75, 75, 75, 75, 75, 76, 76, 76, 76, 76, 76, 77, 77, 77, 77, 77, 77, 78,
   78, 78, 78, 78, 78, 79, 79, 79, 79, 79, 79, 79, 80, 80, 80, 80, 80, 80, 81, 81,
   81, 81, 81, 81, 82, 82, 82, 82, 82, 82, 82, 83, 83, 83, 83, 83, 83, 83, 84, 84,
   84, 84, 84, 84, 84, 85, 85, 85, 85, 85, 85, 85, 86, 86, 86, 86, 86, 86, 86, 86,
   87, 87, 87, 87, 87, 87, 87, 88, 88, 88, 88, 88, 88, 88, 88, 88, 89, 89, 89, 89,
   89, 89, 89, 89, 90, 90, 90, 90, 90, 90, 90, 90, 90, 91, 91, 91, 91, 91, 91, 91,
   91, 91, 92, 92, 92, 92, 92, 92, 92, 92, 92, 92, 93, 93, 93, 93, 93, 93, 93, 93,
   93, 93, 94, 94, 94, 94, 94, 94, 94, 94, 94, 94, 94, 95, 95, 95, 95, 95, 95, 95,
   95, 95, 95, 95, 95, 96, 96, 96, 96, 96, 96, 96, 96, 96, 96, 96, 96, 96, 96, 97,
   97, 97, 97, 97, 97, 97, 97, 97, 97, 97, 97, 97, 97, 97, 97, 98, 98, 98, 98, 98,
   98, 98, 98, 98, 98, 98, 98, 98, 98, 98, 98, 98, 98, 98, 99, 99, 99, 99, 99, 99,
   99, 99, 99, 99, 99, 99, 99, 99, 99, 99, 99, 99, 99, 99, 99, 99, 99, 99, 99, 99,
   99, 99, 100, 100, 100, 100, 100, 100, 100, 100, 100, 100, 100, 100, 100, 100, 100, 100, 100, 100,
   100, 100, 100, 100, 100, 100, 100, 100, 100, 100, 100, 100, 100, 100, 100, 100, 100, 100, 100, 100,
   100>>

\* 100 * sin(2 * pi * j / 2400) for j in 0..2399, by the symmetries of the sine
Sine(j) ==
  LET h == j % 1200
      v == SineQuarter[(IF h <= 600 THEN h ELSE 1200 - h) + 1]
  IN  IF j < 1200 THEN v ELSE -v

\* sine frequencies in Hz, multiples of 20 so that one sample advances the
\* phase by frequency / 20 steps of 1/2400 cycle at 48000 samples a second;
\* their periods (20, 16, 12 and 10 samples) lie within the lags searched
SineFrequencies == {2400, 3000, 4000, 4800}
\* peak amplitudes in hundredths; the RMS of each is above the default threshold
SineAmplitudes == {10, 30, 100}
SineStarts == 0..MaxSineStart

\* SineFrameLen samples, each rounded to hundredths, of a sine of the given
\* frequency and peak amplitude sampled at ComponentSampleRate, starting at
\* sample number start
SineFrame(frequency, amplitude, start) ==
  [i \in 1..SineFrameLen |->
     (amplitude * Sine(((frequency \div 20) * (start + i - 1)) % 2400) + 50) \div 100]

SineFrames ==
  {SineFrame(frequency, amplitude, start) :
     frequency \in SineFrequencies, amplitude \in SineAmplitudes, start \in SineStarts}

\* autoCorrelate on a sine frame, on a new detector
AutoCorrelateSine(buffer) ==
  /\ lastOp = "constructor"
  /\ AutoCorrelate(buffer)

\* a new default detector at the component's sample rate
InitSine ==
  /\ sampleRate = ComponentSampleRate
  /\ pitchHistory = <<>>
  /\ historySize = DefaultHistorySize
  /\ pitchTolerance = DefaultPitchTolerance
  /\ rmsThreshold = DefaultRmsThreshold
  /\ correlationThreshold = DefaultCorrelationThreshold
  /\ minCorrelationQuality = DefaultMinCorrelationQuality
  /\ lastOp = "constructor"
  /\ ret = Undefined
  /\ lastRaw = NoPitch
  /\ streak = <<>>
  /\ prevHistory = <<>>
  /\ lastBuffer = <<>>
  /\ clearedNonEmpty = FALSE
  /\ memo = NoMemo
  /\ peer = NoPeer
  /\ caller = Alone
  /\ ComponentsIdle

NextSine == \E buffer \in SineFrames : AutoCorrelateSine(buffer)

SpecSine == InitSine /\ [][NextSine]_vars

(* ------------------ the pitch-detector component ------------------------ *)
\* source: src/src/components/PitchDetector/PitchDetector.js

\* a handle, stream or context the browser has not handed out among `used`
NewId(used) == CHOOSE i \in 1..(Cardinality(used) + 1) : i \notin used

\* what detectPitch of the component's detector returns to the loop
DetectResults == {None, 220}

\* one run of the closure `detect` of lines 148-182: nothing while inactive;
\* otherwise a poll when the detection interval has elapsed, and in any case a
\* new animation-frame request
Detect(c, b, elapsed, frequency) ==
  IF ~c.isActive THEN [c |-> c, b |-> b]
  ELSE LET h == NewId(b.frameRequests \cup {c.animationFrame})
           c1 == IF elapsed
                 THEN [c EXCEPT !.currentFrequency =
                         IF frequency # None /\ frequency > 0 THEN frequency ELSE None]
                 ELSE c
           b1 == IF elapsed
                 THEN [b EXCEPT !.polls = @ + 1, !.updates = @ + 1]
                 ELSE b
       IN  [c |-> [c1 EXCEPT !.animationFrame = h],
            b |-> [b1 EXCEPT !.frameRequests = @ \cup {h}]]

\* detectPitchLoop(), lines 141-185: the first run of `detect`
DetectPitchLoop(c, b, elapsed, frequency) == Detect(c, b, elapsed, frequency)

\* start() up to its await, lines 77-90: nothing when already active, otherwise
\* getUserMedia is requested
PitchDetectorStart ==
  /\ browser.connected
  /\ ~component.isActive
  /\ browser.pendingStarts < MaxPendingStarts
  /\ Cardinality(browser.liveStreams) + browser.pendingStarts < MaxStreams
  /\ browser' = [browser EXCEPT !.pendingStarts = @ + 1]
  /\ UNCHANGED <<component, playback, notePlayer, voiceFeedback, detectorVars>>

\* start() resumed with a stream, lines 82-125
GetUserMediaGranted(elapsed, frequency) ==
  /\ browser.pendingStarts > 0
  /\ (component.isActive /\ elapsed) => browser.polls < MaxPolls
  /\ LET stream == NewId(browser.liveStreams \cup {component.stream})
         context == NewId(browser.openContexts \cup {component.audioContext})
         c1 == [component EXCEPT !.stream = stream, !.audioContext = context,
                                 !.analyser = context, !.microphone = context,
                                 !.gainNode = context, !.pitchDetector = context]
         b1 == [browser EXCEPT !.pendingStarts = @ - 1,
                               !.liveStreams = @ \cup {stream},
                               !.openContexts = @ \cup {context}]
         loop == DetectPitchLoop(c1, b1, elapsed, frequency)
     IN  /\ component' = [loop.c EXCEPT !.isActive = TRUE, !.errorMessage = NoError]
         /\ browser' = loop.b
  /\ UNCHANGED <<playback, notePlayer, voiceFeedback, detectorVars>>

\* start() resumed with a rejection, lines 127-135
GetUserMediaDenied ==
  /\ browser.pendingStarts > 0
  /\ component' = [component EXCEPT !.errorMessage = "Could not access microphone"]
  /\ browser' = [browser EXCEPT !.pendingStarts = @ - 1]
  /\ UNCHANGED <<playback, notePlayer, voiceFeedback, detectorVars>>

\* start() resumed with a stream, after which building the audio graph throws,
\* lines 82-135: `new AudioContext` throws, or the context is created and a
\* later step of lines 99-113 throws; the catch reports the error
AudioGraphThrows(created) ==
  /\ browser.pendingStarts > 0
  /\ LET stream == NewId(browser.liveStreams \cup {component.stream})
         context == NewId(browser.openContexts \cup {component.audioContext})
     IN  /\ component' =
              [component EXCEPT
                 !.stream = stream,
                 !.audioContext = IF created THEN context ELSE @,
                 !.analyser = IF created THEN context ELSE @,
                 !.errorMessage = "Could not access microphone"]
         /\ browser' =
              [browser EXCEPT
                 !.pendingStarts = @ - 1,
                 !.liveStreams = @ \cup {stream},
                 !.openContexts = IF created THEN @ \cup {context} ELSE @]
  /\ UNCHANGED <<playback, notePlayer, voiceFeedback, detectorVars>>

\* the browser runs a requested animation frame: `detect`, lines 148-182
AnimationFrame(handle, elapsed, frequency) ==
  /\ handle \in browser.frameRequests
  /\ (component.isActive /\ elapsed) => browser.polls < MaxPolls
  /\ LET b1 == [browser EXCEPT !.frameRequests = @ \ {handle}]
         run == Detect(component, b1, elapsed, frequency)
     IN  /\ component' = run.c
         /\ browser' = run.b
  /\ UNCHANGED <<playback, notePlayer, voiceFeedback, detectorVars>>

\* toggleMonitoring(), lines 247-266: nothing without a gain node and a context
ToggleMonitoring ==
  /\ browser.connected
  /\ component.gainNode # None
  /\ component.audioContext # None
  /\ component' = [component EXCEPT !.isMonitoring = ~@]
  /\ UNCHANGED <<browser, playback, notePlayer, voiceFeedback, detectorVars>>

\* the fields after stop(), lines 190-231
Stopped(c) ==
  [c EXCEPT !.isActive = FALSE, !.animationFrame = None, !.gainNode = None,
            !.microphone = None, !.analyser = None, !.stream = None,
            !.audioContext = None, !.currentFrequency = None,
            !.isMonitoring = FALSE, !.pitchDetector = None]

\* what stop() cancels, stops and closes in the browser, lines 194-224
Released(c, b) ==
  [b EXCEPT !.frameRequests = @ \ {c.animationFrame},
            !.liveStreams = @ \ {c.stream},
            !.openContexts = @ \ {c.audioContext}]

\* stop(), called through toggle() or directly
PitchDetectorStop ==
  /\ browser.connected
  /\ component' = Stopped(component)
  /\ browser' = Released(component, browser)
  /\ UNCHANGED <<playback, notePlayer, voiceFeedback, detectorVars>>

\* disconnectedCallback(), lines 65-72
PitchDetectorDisconnected ==
  /\ browser.connected
  /\ component' = Stopped(component)
  /\ browser' = [Released(component, browser) EXCEPT !.connected = FALSE]
  /\ UNCHANGED <<playback, notePlayer, voiceFeedback, detectorVars>>

\* a new detector, not in use, at the component's sample rate
DetectorNew ==
  /\ sampleRate = ComponentSampleRate
  /\ pitchHistory = <<>>
  /\ historySize = DefaultHistorySize
  /\ pitchTolerance = DefaultPitchTolerance
  /\ rmsThreshold = DefaultRmsThreshold
  /\ correlationThreshold = DefaultCorrelationThreshold
  /\ minCorrelationQuality = DefaultMinCorrelationQuality
  /\ lastOp = "constructor"
  /\ ret = Undefined
  /\ lastRaw = NoPitch
  /\ streak = <<>>
  /\ prevHistory = <<>>
  /\ lastBuffer = <<>>
  /\ clearedNonEmpty = FALSE
  /\ memo = NoMemo
  /\ peer = NoPeer
  /\ caller = Alone

InitComponent == DetectorNew /\ ComponentsIdle

NextComponent ==
  \/ PitchDetectorStart
  \/ \E elapsed \in BOOLEAN, frequency \in DetectResults :
       GetUserMediaGranted(elapsed, frequency)
  \/ GetUserMediaDenied
  \/ \E created \in BOOLEAN : AudioGraphThrows(created)
  \/ \E handle \in browser.frameRequests, elapsed \in BOOLEAN,
        frequency \in DetectResults : AnimationFrame(handle, elapsed, frequency)
  \/ ToggleMonitoring
  \/ PitchDetectorStop
  \/ PitchDetectorDisconnected

SpecComponent == InitComponent /\ [][NextComponent]_vars

(* ---------------------- the playback module ---------------------------- *)
\* source: src/src/components/PlaybackModule/PlaybackModule.js, class PlaybackModule

\* the states in which a new AudioContext can start: suspended until a user
\* gesture where the browser's autoplay policy says so, running otherwise
ContextStates == {"suspended", "running"}

\* stop(), lines 160-190: the pending timeout is cleared, the current oscillator
\* stopped and dropped, the gain node dropped, and 'playback-stop' dispatched
\* when a tone was playing
StopPlayback(p, b) ==
  [p |-> [p EXCEPT !.stopTimeout = None, !.currentOscillator = None,
                   !.currentGainNode = None, !.isPlaying = FALSE],
   b |-> [b EXCEPT !.timeouts = @ \ {p.stopTimeout},
                   !.sounding = @ \ {p.currentOscillator},
                   !.lastEvent = IF p.isPlaying THEN "playback-stop" ELSE @,
                   !.repeatedEvent = IF p.isPlaying THEN b.lastEvent = "playback-stop"
                                     ELSE @]]

\* initAudioContext(), lines 71-78: a context is created only when there is none
InitAudioContext(p, b, state) ==
  IF p.audioContext = None
  THEN [p |-> [p EXCEPT !.audioContext = 1], b |-> [b EXCEPT !.contextState = state]]
  ELSE [p |-> p, b |-> b]

\* the try block of playTone, lines 95-154: a new oscillator and gain node become
\* the current ones, the oscillator is started, the auto-stop timeout is set and
\* 'playback-start' is dispatched; without a context the catch runs stop()
StartTone(p, b) ==
  IF p.audioContext = None THEN StopPlayback(p, b)
  ELSE LET oscillator == NewId(b.sounding \cup {p.currentOscillator})
           timeout == NewId(b.timeouts \cup {p.stopTimeout})
       IN  [p |-> [p EXCEPT !.currentOscillator = oscillator,
                            !.currentGainNode = oscillator,
                            !.isPlaying = TRUE,
                            !.stopTimeout = timeout],
            b |-> [b EXCEPT !.sounding = @ \cup {oscillator},
                            !.timeouts = @ \cup {timeout},
                            !.lastEvent = "playback-start",
                            !.repeatedEvent = (b.lastEvent = "playback-start")]]

\* playTone(frequency, duration) up to its await, and to its end when the
\* context is not suspended, lines 85-155; the frequency and the duration reach
\* only the oscillator and the event's detail
PlayTone(state) ==
  /\ browser.pendingTones + browser.closedTones + Cardinality(browser.sounding)
       < MaxTones
  /\ browser.pendingTones + browser.closedTones + Cardinality(browser.timeouts)
       < MaxTones
  /\ LET stopped == StopPlayback(playback, browser)
         ready == InitAudioContext(stopped.p, stopped.b, state)
         tone == IF ready.b.contextState = "suspended"
                 THEN [p |-> ready.p,
                       b |-> [ready.b EXCEPT !.pendingTones = @ + 1]]
                 ELSE StartTone(ready.p, ready.b)
     IN  /\ playback' = tone.p
         /\ browser' = tone.b
  /\ UNCHANGED <<component, notePlayer, voiceFeedback, detectorVars>>

\* audioContext.resume() resolves and one awaiting playTone goes on, lines 95-154
ResumeResolved ==
  /\ browser.pendingTones > 0
  /\ LET tone == StartTone(playback, [browser EXCEPT !.pendingTones = @ - 1,
                                                     !.contextState = "running"])
     IN  /\ playback' = tone.p
         /\ browser' = tone.b
  /\ UNCHANGED <<component, notePlayer, voiceFeedback, detectorVars>>

\* an oscillator reaches the end scheduled by stop(now + playDuration), line 131
OscillatorEnds(oscillator) ==
  /\ oscillator \in browser.sounding
  /\ browser' = [browser EXCEPT !.sounding = @ \ {oscillator}]
  /\ UNCHANGED <<component, playback, notePlayer, voiceFeedback, detectorVars>>

\* the callback of a setTimeout of line 136 runs: stop()
StopTimeoutFires(timeout) ==
  /\ timeout \in browser.timeouts
  /\ LET stopped == StopPlayback(playback,
                                 [browser EXCEPT !.timeouts = @ \ {timeout}])
     IN  /\ playback' = stopped.p
         /\ browser' = stopped.b
  /\ UNCHANGED <<component, notePlayer, voiceFeedback, detectorVars>>

\* stop() called from outside, lines 160-190
PlaybackStop ==
  /\ LET stopped == StopPlayback(playback, browser)
     IN  /\ playback' = stopped.p
         /\ browser' = stopped.b
  /\ UNCHANGED <<component, notePlayer, voiceFeedback, detectorVars>>

\* cleanup(), lines 195-202, called by disconnectedCallback (line 62): stop(),
\* then the context is closed and dropped; closing it silences every
\* oscillator it still had
PlaybackCleanup ==
  /\ LET stopped == StopPlayback(playback, browser)
     IN  IF stopped.p.audioContext = None
         THEN /\ playback' = stopped.p
              /\ browser' = stopped.b
         ELSE /\ playback' = [stopped.p EXCEPT !.audioContext = None]
              /\ browser' = [stopped.b EXCEPT
                   !.contextState = "closed",
                   !.sounding = {},
                   !.closedTones = @ + stopped.b.pendingTones,
                   !.pendingTones = 0]
  /\ UNCHANGED <<component, notePlayer, voiceFeedback, detectorVars>>

\* resume() of a context closed by cleanup() settles for an awaiting playTone,
\* lines 93-154: it resolves or rejects, as the browser has it; resolved, the
\* call goes on with whatever context the module has by then; rejected, it ends
ResumeAfterClose(resolved) ==
  /\ browser.closedTones > 0
  /\ LET b1 == [browser EXCEPT !.closedTones = @ - 1]
         tone == IF resolved THEN StartTone(playback, b1)
                 ELSE [p |-> playback, b |-> b1]
     IN  /\ playback' = tone.p
         /\ browser' = tone.b
  /\ UNCHANGED <<component, notePlayer, voiceFeedback, detectorVars>>

\* the volumes callers set, in hundredths
Volumes == {-50, 0, 30, 100, 150}

\* setVolume(newVolume), lines 207-219: the volume is clamped to 0..1
SetVolume(newVolume) ==
  /\ playback' = [playback EXCEPT !.volume =
                    IF newVolume < 0 THEN 0 ELSE IF newVolume > One THEN One ELSE newVolume]
  /\ UNCHANGED <<component, notePlayer, browser, voiceFeedback, detectorVars>>

InitPlayback ==
  /\ DetectorNew
  /\ component = ComponentNew
  /\ playback = PlaybackNew
  /\ notePlayer = NotePlayerNew
  /\ voiceFeedback = VoiceFeedbackNew
  /\ \E state \in ContextStates : browser = [BrowserIdle EXCEPT !.contextState = state]

NextPlayback ==
  \/ \E state \in ContextStates : PlayTone(state)
  \/ ResumeResolved
  \/ \E oscillator \in browser.sounding : OscillatorEnds(oscillator)
  \/ \E timeout \in browser.timeouts : StopTimeoutFires(timeout)
  \/ PlaybackStop
  \/ PlaybackCleanup
  \/ \E resolved \in BOOLEAN : ResumeAfterClose(resolved)
  \/ \E newVolume \in Volumes : SetVolume(newVolume)

SpecPlayback == InitPlayback /\ [][NextPlayback]_vars

(* ------------------------- the note player ------------------------------ *)
\* source: src/src/components/PlaybackModule/PlaybackModule.js, class NotePlayer

\* the notes of the keyboard used here
NoteNames == {"C", "D"}

\* playNote(noteName), lines 328-353: the note becomes the playing one and a
\* timer of 3000 ms is set that remembers the note
PlayNote(noteName) ==
  /\ browser.noteCalls < MaxNoteCalls
  /\ notePlayer' = [notePlayer EXCEPT !.playingNote = noteName]
  /\ browser' = [browser EXCEPT
       !.noteCalls = @ + 1,
       !.setBy = browser.noteCalls + 1,
       !.noteTimers = Append(@, [note |-> noteName, call |-> browser.noteCalls + 1])]
  /\ UNCHANGED <<component, playback, voiceFeedback, detectorVars>>

\* stopNote(), lines 355-362
StopNote ==
  /\ notePlayer' = [notePlayer EXCEPT !.playingNote = NoNote]
  /\ browser' = [browser EXCEPT !.setBy = 0]
  /\ UNCHANGED <<component, playback, voiceFeedback, detectorVars>>

\* the oldest timer runs (all delays are 3000 ms, so timers run in the order
\* they were set), lines 346-350: the playing note is cleared when it is the
\* note the timer remembers
NoteTimerFires ==
  /\ browser.noteTimers # <<>>
  /\ LET timer == Head(browser.noteTimers)
         clears == notePlayer.playingNote = timer.note
     IN  /\ notePlayer' = IF clears THEN [notePlayer EXCEPT !.playingNote = NoNote]
                          ELSE notePlayer
         /\ browser' = [browser EXCEPT
              !.noteTimers = Tail(@),
              !.cleared = IF clears THEN <<timer.call, browser.setBy>> ELSE @]
  /\ UNCHANGED <<component, playback, voiceFeedback, detectorVars>>

InitNotePlayer == DetectorNew /\ ComponentsIdle

NextNotePlayer ==
  \/ \E noteName \in NoteNames : PlayNote(noteName)
  \/ StopNote
  \/ NoteTimerFires

SpecNotePlayer == InitNotePlayer /\ [][NextNotePlayer]_vars

(* --------------------- the voice-feedback component --------------------- *)
\* source: src/unnamed/part_001, class VoiceFeedback

\* lines 598-599 of toggleMonitoring: the gain is set through this.gainNode,
\* then this.audioContext.currentTime is read, then isMonitoring is set; a null
\* field ends the call with a TypeError
FeedbackEnable(v, f) ==
  IF v.gainNode = None THEN [v |-> v, f |-> [f EXCEPT !.nullDeref = "gainNode"]]
  ELSE IF v.audioContext = None
       THEN [v |-> v, f |-> [f EXCEPT !.nullDeref = "audioContext"]]
       ELSE [v |-> [v EXCEPT !.isMonitoring = TRUE], f |-> f]

\* toggleMonitoring from its guard to its next await, lines 575-584: nothing
\* without a gain node and a context; monitoring is switched off at once;
\* switching it on begins with detectHeadphones()
MonitoringBody(v, f) ==
  IF v.gainNode = None \/ v.audioContext = None THEN [v |-> v, f |-> f]
  ELSE IF v.isMonitoring
       THEN [v |-> [v EXCEPT !.isMonitoring = FALSE, !.showHeadphoneWarning = FALSE],
             f |-> f]
       ELSE [v |-> v, f |-> [f EXCEPT !.headphones = @ + 1]]

\* what follows a start() that has ended: a toggleMonitoring call that was
\* awaiting it goes on when the component is active, lines 569-573
AfterStart(fromMonitoring, v, f) ==
  IF fromMonitoring /\ v.isActive THEN MonitoringBody(v, f) ELSE [v |-> v, f |-> f]

\* the start() calls awaiting getUserMedia, made directly or by toggleMonitoring
PendingFeedbackStarts(f, fromMonitoring) ==
  IF fromMonitoring THEN f.monitorStarts ELSE f.starts

\* one start() call awaiting getUserMedia fewer
StartSettled(f, fromMonitoring) ==
  IF fromMonitoring THEN [f EXCEPT !.monitorStarts = @ - 1]
  ELSE [f EXCEPT !.starts = @ - 1]

\* start() up to its await, lines 473-487, called directly or through toggle()
FeedbackStart ==
  /\ ~voiceFeedback.isActive
  /\ browser.feedback.starts + browser.feedback.monitorStarts < MaxPendingStarts
  /\ Cardinality(browser.feedback.liveStreams) + browser.feedback.starts
       + browser.feedback.monitorStarts < MaxStreams
  /\ browser' = [browser EXCEPT !.feedback.starts = @ + 1]
  /\ UNCHANGED <<component, playback, notePlayer, voiceFeedback, detectorVars>>

\* toggleMonitoring() up to its first await, lines 568-584: an inactive
\* component is started first
FeedbackToggleMonitoring ==
  /\ browser.feedback.monitorStarts + browser.feedback.headphones
       + Len(browser.feedback.resumes) < MaxMonitorAwaits
  /\ ~voiceFeedback.isActive =>
       /\ browser.feedback.starts + browser.feedback.monitorStarts < MaxPendingStarts
       /\ Cardinality(browser.feedback.liveStreams) + browser.feedback.starts
            + browser.feedback.monitorStarts < MaxStreams
  /\ LET next == IF ~voiceFeedback.isActive
                 THEN [v |-> voiceFeedback,
                       f |-> [browser.feedback EXCEPT !.monitorStarts = @ + 1]]
                 ELSE MonitoringBody(voiceFeedback, browser.feedback)
     IN  /\ voiceFeedback' = next.v
         /\ browser' = [browser EXCEPT !.feedback = next.f]
  /\ UNCHANGED <<component, playback, notePlayer, detectorVars>>

\* start() resumed with a stream and run to its end, lines 476-506; the new
\* context starts suspended or running
FeedbackStarted(fromMonitoring, state) ==
  /\ PendingFeedbackStarts(browser.feedback, fromMonitoring) > 0
  /\ LET f == browser.feedback
         stream == NewId(f.liveStreams \cup {voiceFeedback.stream})
         context == NewId(f.openContexts \cup {voiceFeedback.audioContext})
         v1 == [voiceFeedback EXCEPT !.stream = stream, !.audioContext = context,
                                     !.microphone = context, !.gainNode = context,
                                     !.isActive = TRUE, !.errorMessage = NoError]
         f1 == [StartSettled(f, fromMonitoring) EXCEPT
                  !.liveStreams = @ \cup {stream},
                  !.openContexts = @ \cup {context},
                  !.running = IF state = "running" THEN @ \cup {context} ELSE @]
         next == AfterStart(fromMonitoring, v1, f1)
     IN  /\ voiceFeedback' = next.v
         /\ browser' = [browser EXCEPT !.feedback = next.f]
  /\ UNCHANGED <<component, playback, notePlayer, detectorVars>>

\* the steps of start() that can throw: getUserMedia rejects, `new AudioContext`
\* throws, createMediaStreamSource throws, connect throws
StartStages == {"getUserMedia", "AudioContext", "createMediaStreamSource", "connect"}

\* start() resumed and ended in its catch, lines 476-518, with what the try
\* block had assigned before the throw
FeedbackStartFails(fromMonitoring, stage, state) ==
  /\ PendingFeedbackStarts(browser.feedback, fromMonitoring) > 0
  /\ LET f == browser.feedback
         stream == NewId(f.liveStreams \cup {voiceFeedback.stream})
         context == NewId(f.openContexts \cup {voiceFeedback.audioContext})
         hasStream == stage # "getUserMedia"
         hasContext == stage \in {"createMediaStreamSource", "connect"}
         hasNodes == stage = "connect"
         v1 == [voiceFeedback EXCEPT
                  !.stream = IF hasStream THEN stream ELSE @,
                  !.audioContext = IF hasContext THEN context ELSE @,
                  !.microphone = IF hasNodes THEN context ELSE @,
                  !.gainNode = IF hasNodes THEN context ELSE @,
                  !.errorMessage = "Could not access microphone"]
         f1 == [StartSettled(f, fromMonitoring) EXCEPT
                  !.liveStreams = IF hasStream THEN @ \cup {stream} ELSE @,
                  !.openContexts = IF hasContext THEN @ \cup {context} ELSE @,
                  !.running = IF hasContext /\ state = "running"
                              THEN @ \cup {context} ELSE @]
         next == AfterStart(fromMonitoring, v1, f1)
     IN  /\ voiceFeedback' = next.v
         /\ browser' = [browser EXCEPT !.feedback = next.f]
  /\ UNCHANGED <<component, playback, notePlayer, detectorVars>>

\* detectHeadphones() has answered and toggleMonitoring goes on, lines 584-599:
\* the warning is shown for 5 seconds without headphones, a suspended context
\* is resumed and awaited, a running one has monitoring enabled at once
HeadphonesDetected(hasHeadphones) ==
  /\ browser.feedback.headphones > 0
  /\ ~hasHeadphones => browser.feedback.warningTimers < MaxMonitorAwaits
  /\ LET v1 == IF hasHeadphones THEN voiceFeedback
               ELSE [voiceFeedback EXCEPT !.showHeadphoneWarning = TRUE]
         f1 == [browser.feedback EXCEPT
                  !.headphones = @ - 1,
                  !.warningTimers = IF hasHeadphones THEN @ ELSE @ + 1]
         next == IF v1.audioContext = None
                 THEN [v |-> v1, f |-> [f1 EXCEPT !.nullDeref = "audioContext"]]
                 ELSE IF v1.audioContext \notin f1.running
                      THEN [v |-> v1,
                            f |-> [f1 EXCEPT !.resumes = Append(@, v1.audioContext)]]
                      ELSE FeedbackEnable(v1, f1)
     IN  /\ voiceFeedback' = next.v
         /\ browser' = [browser EXCEPT !.feedback = next.f]
  /\ UNCHANGED <<component, playback, notePlayer, detectorVars>>

\* the timer of lines 588-591 runs
WarningTimerFires ==
  /\ browser.feedback.warningTimers > 0
  /\ voiceFeedback' = [voiceFeedback EXCEPT !.showHeadphoneWarning = FALSE]
  /\ browser' = [browser EXCEPT !.feedback.warningTimers = @ - 1]
  /\ UNCHANGED <<component, playback, notePlayer, detectorVars>>

\* the sequence s without its i-th entry
Without(s, i) == SubSeq(s, 1, i - 1) \o SubSeq(s, i + 1, Len(s))

\* an awaited audioContext.resume() settles, lines 596-599: it resolves, and
\* toggleMonitoring enables monitoring; for a context that stop() has closed
\* in the meantime it resolves or rejects, as the browser has it, and a
\* rejection ends toggleMonitoring
FeedbackResumeSettled(i, resolved) ==
  /\ i \in 1..Len(browser.feedback.resumes)
  /\ LET f == browser.feedback
         context == f.resumes[i]
         f1 == [f EXCEPT !.resumes = Without(@, i),
                         !.running = IF resolved /\ context \in f.openContexts
                                     THEN @ \cup {context} ELSE @]
         next == IF resolved THEN FeedbackEnable(voiceFeedback, f1)
                 ELSE [v |-> voiceFeedback, f |-> f1]
     IN  /\ ~resolved => context \notin f.openContexts
         /\ voiceFeedback' = next.v
         /\ browser' = [browser EXCEPT !.feedback = next.f]
  /\ UNCHANGED <<component, playback, notePlayer, detectorVars>>

\* stop(), lines 524-552, called directly, through toggle() or by
\* disconnectedCallback (lines 432-439)
FeedbackStop ==
  /\ voiceFeedback' = [voiceFeedback EXCEPT
       !.isActive = FALSE, !.isMonitoring = FALSE, !.gainNode = None,
       !.microphone = None, !.stream = None, !.audioContext = None]
  /\ browser' = [browser EXCEPT
       !.feedback.liveStreams = @ \ {voiceFeedback.stream},
       !.feedback.openContexts = @ \ {voiceFeedback.audioContext},
       !.feedback.running = @ \ {voiceFeedback.audioContext}]
  /\ UNCHANGED <<component, playback, notePlayer, detectorVars>>

InitFeedback == DetectorNew /\ ComponentsIdle

NextFeedback ==
  \/ FeedbackStart
  \/ FeedbackToggleMonitoring
  \/ \E fromMonitoring \in BOOLEAN, state \in ContextStates :
       FeedbackStarted(fromMonitoring, state)
  \/ \E fromMonitoring \in BOOLEAN, stage \in StartStages, state \in ContextStates :
       FeedbackStartFails(fromMonitoring, stage, state)
  \/ \E hasHeadphones \in BOOLEAN : HeadphonesDetected(hasHeadphones)
  \/ WarningTimerFires
  \/ \E i \in 1..Len(browser.feedback.resumes), resolved \in BOOLEAN :
       FeedbackResumeSettled(i, resolved)
  \/ FeedbackStop

SpecFeedback == InitFeedback /\ [][NextFeedback]_vars

(* ============================ properties =============================== *)
\* the last n entries of s, in order
LastN(s, n) == SubSeq(s, Len(s) - n + 1, Len(s))

\* every entry of w strictly within pitchTolerance of the mean of w
WindowConsistent(w) ==
  \A i \in 1..Len(w) : Abs(w[i] * Len(w) - Sum(w)) < pitchTolerance * Len(w)

\* the fraction r.num / r.den equals the mean of w
IsMeanOf(r, w) == r.num * Len(w) = Sum(w) * r.den

RECURSIVE SeqMax(_)
SeqMax(s) == IF Len(s) = 1 THEN s[1]
             ELSE LET m == SeqMax(Tail(s)) IN IF s[1] > m THEN s[1] ELSE m

RECURSIVE SeqMin(_)
SeqMin(s) == IF Len(s) = 1 THEN s[1]
             ELSE LET m == SeqMin(Tail(s)) IN IF s[1] < m THEN s[1] ELSE m

AllEqual(s, f) == \A i \in 1..Len(s) : s[i] = f

ReturnedNumber == lastOp = "detectPitch" /\ ret.kind = "number"
PlausibleCall  == lastOp = "detectPitch" /\ InRange(lastRaw)

\* C1: after any sequence of detectPitch, reset and setSensitivity calls the
\* history never holds more than historySize entries.
C1_HistoryBounded == Len(pitchHistory) <= historySize

\* a full history that has already evicted at least one entry
C1_Witness ==
  /\ lastOp = "detectPitch"
  /\ historySize >= 1
  /\ Len(pitchHistory) = historySize
  /\ Len(streak) > historySize

\* C2: whenever detectPitch returns a number, the history holds exactly
\* historySize entries and each lies strictly within pitchTolerance of the
\* mean of the history.
C2_NonNullOnlyIfConsistent ==
  ReturnedNumber =>
    /\ Len(pitchHistory) = historySize
    /\ WindowConsistent(pitchHistory)

\* a number returned from a window whose entries differ
C2_Witness ==
  /\ ReturnedNumber
  /\ Len(pitchHistory) >= 2
  /\ SeqMax(pitchHistory) # SeqMin(pitchHistory)

\* C3: detectPitch returns a number only if this call and the historySize-1
\* detectPitch calls before it all had plausible raw estimates with no reset,
\* setSensitivity or implausible reading in between.
C3_NeedsFullRun ==
  ReturnedNumber => (historySize >= 1 /\ Len(streak) >= historySize)

\* the default detector emitting on exactly its historySize-th plausible reading
C3_Witness ==
  /\ ReturnedNumber
  /\ historySize = DefaultHistorySize
  /\ Len(streak) = historySize

\* C4: when the history is full after a plausible push, detectPitch returns
\* exactly the mean of the last historySize raw estimates if all of them are
\* strictly within pitchTolerance of it, and null otherwise.
C4_FullWindowResult ==
  (PlausibleCall /\ historySize >= 1 /\ Len(streak) >= historySize) =>
    LET w == LastN(streak, historySize)
    IN  IF WindowConsistent(w)
        THEN ret.kind = "number" /\ IsMeanOf(ret, w)
        ELSE ret = Null

\* the mean of unequal readings returned right after a call that returned null
\* on a full window
C4_Witness ==
  /\ ReturnedNumber
  /\ Len(streak) > historySize
  /\ historySize >= 2
  /\ SeqMax(pitchHistory) # SeqMin(pitchHistory)
  /\ ~WindowConsistent(prevHistory)

\* C5: one raw estimate outside the plausible range empties the history and
\* returns null whatever the history held; no number is returned until
\* historySize further plausible estimates have arrived.
C5_OutOfRangeResets ==
  /\ (lastOp = "detectPitch" /\ lastRaw # NoPitch /\ ~InRange(lastRaw)) =>
       (pitchHistory = <<>> /\ ret = Null)
  /\ (lastOp = "detectPitch" /\ Len(streak) < historySize) => ret.kind # "number"

\* an out-of-range estimate arriving on a full history
C5_Witness ==
  /\ lastOp = "detectPitch"
  /\ lastRaw > MaxFrequency
  /\ historySize >= 1
  /\ Len(prevHistory) = historySize
  /\ pitchHistory = <<>>

\* C6: when autoCorrelate yields no raw estimate, detectPitch clears the
\* history and returns null, in every filter state.
C6_NoEstimateResets ==
  (lastOp = "detectPitch" /\ lastRaw = NoPitch) =>
    (pitchHistory = <<>> /\ ret = Null)

\* no estimate arriving on a full, consistent (Stable) history
C6_Witness ==
  /\ lastOp = "detectPitch"
  /\ lastRaw = NoPitch
  /\ historySize >= 1
  /\ Len(prevHistory) = historySize
  /\ WindowConsistent(prevHistory)
  /\ pitchHistory = <<>>

\* C7: a full but inconsistent history is not cleared: after a plausible call
\* that returns null on a full window the history is exactly the last
\* historySize plausible readings, the window slides on the next plausible
\* reading, and null is returned only while the window is inconsistent.
C7_InconsistentKeepsSliding ==
  (PlausibleCall /\ ret = Null /\ historySize >= 1 /\ Len(streak) >= historySize) =>
    /\ Len(pitchHistory) = historySize
    /\ pitchHistory = LastN(streak, historySize)
    /\ ~WindowConsistent(pitchHistory)
    /\ (Len(prevHistory) = historySize =>
          pitchHistory = Append(Tail(prevHistory), lastRaw))

\* a number returned by the call right after a full, inconsistent window
C7_Witness ==
  /\ ReturnedNumber
  /\ Len(prevHistory) = historySize
  /\ ~WindowConsistent(prevHistory)
  /\ pitchHistory = Append(Tail(prevHistory), lastRaw)

\* the run since the last clearing event is historySize copies of one value
IdenticalRun ==
  /\ PlausibleCall
  /\ historySize >= 1
  /\ Len(streak) = historySize
  /\ AllEqual(streak, lastRaw)

\* C8 as stated: historySize identical plausible estimates f on a fresh or
\* reset detector make the last call return exactly f, for every
\* historySize >= 1 and every pitchTolerance >= 0.
C8_IdenticalYieldsF_AnyTolerance ==
  (IdenticalRun /\ pitchTolerance >= 0) =>
    (ret.kind = "number" /\ ret.num = lastRaw * ret.den)

\* C8 amended: the same for every historySize >= 1 and every pitchTolerance > 0.
C8_IdenticalYieldsF ==
  (IdenticalRun /\ pitchTolerance > 0) =>
    (ret.kind = "number" /\ ret.num = lastRaw * ret.den)

\* identical readings filling a history of at least two entries
C8_Witness ==
  /\ IdenticalRun
  /\ historySize >= 2
  /\ pitchTolerance > 0
  /\ ret.kind = "number"

\* C9: the history is a FIFO queue: after n >= historySize plausible readings
\* in a row it is the last historySize of them in arrival order, and a push at
\* capacity evicts exactly the oldest entry.
C9_Fifo ==
  (PlausibleCall /\ historySize >= 1) =>
    /\ Len(streak) >= historySize => pitchHistory = LastN(streak, historySize)
    /\ Len(prevHistory) = historySize =>
         pitchHistory = Append(Tail(prevHistory), lastRaw)

\* a push at capacity that evicted an entry different from the one pushed
C9_Witness ==
  /\ PlausibleCall
  /\ historySize >= 2
  /\ Len(prevHistory) = historySize
  /\ Head(prevHistory) # lastRaw
  /\ Len(streak) > historySize

\* C10 as stated: a number is returned only when max entry - min entry is at
\* most pitchTolerance.
C10_SpreadAtMostTolerance ==
  ReturnedNumber =>
    SeqMax(pitchHistory) - SeqMin(pitchHistory) <= pitchTolerance

\* C10 amended: a number is returned only when max entry - min entry is
\* strictly less than twice pitchTolerance.
C10_SpreadBelowTwiceTolerance ==
  ReturnedNumber =>
    SeqMax(pitchHistory) - SeqMin(pitchHistory) < 2 * pitchTolerance

\* a number returned from a window whose spread exceeds pitchTolerance
C10_Witness ==
  /\ ReturnedNumber
  /\ SeqMax(pitchHistory) - SeqMin(pitchHistory) > pitchTolerance

(* ------------------- reference definitions of the estimator ------------- *)
\* N * rms^2 of a buffer, in hundredths squared
RefEnergy(b) == Sum([i \in 1..Len(b) |-> b[i] * b[i]])

\* the frame is strictly below the RMS threshold
RefBelowThreshold(b) ==
  rmsThreshold > 0 /\ RefEnergy(b) < rmsThreshold * rmsThreshold * Len(b)

\* the frame's RMS equals the RMS threshold
RefAtThreshold(b) ==
  rmsThreshold >= 0 /\ RefEnergy(b) = rmsThreshold * rmsThreshold * Len(b)

RefHalf(b) == Len(b) \div 2

\* score(k) in units of 1 / (100 * N/2); score(0) is the seed 1
RefScore(b, k) ==
  IF k = 0 THEN 100 * RefHalf(b)
  ELSE 100 * RefHalf(b) - Sum([i \in 1..RefHalf(b) |-> Abs(b[i] - b[i + k])])

RefDelta(b, k) == RefScore(b, k) - RefScore(b, k - 1)

\* lags above correlationThreshold whose score rises over the previous lag's
RefCandidates(b) ==
  {k \in 1..(RefHalf(b) - 1) :
     /\ RefScore(b, k) > correlationThreshold * RefHalf(b)
     /\ RefDelta(b, k) > 0}

\* the candidate with the largest rise, the smallest such lag on ties; -1 if none
RefBest(b) ==
  IF RefCandidates(b) = {} THEN -1
  ELSE CHOOSE k \in RefCandidates(b) :
         \A j \in RefCandidates(b) :
           \/ RefDelta(b, k) > RefDelta(b, j)
           \/ (RefDelta(b, k) = RefDelta(b, j) /\ k <= j)

RefFirst(b) == CHOOSE k \in RefCandidates(b) : \A j \in RefCandidates(b) : k <= j

\* the outcome of the search and the quality test for a frame past the gate
RefAccepted(b) ==
  /\ RefBest(b) # -1
  /\ RefDelta(b, RefBest(b)) >= minCorrelationQuality * RefHalf(b)

AllZero(b) == \A i \in 1..Len(b) : b[i] = 0

DirectCall == lastOp = "autoCorrelate"
SearchedCall == DirectCall /\ ~RefBelowThreshold(lastBuffer)

\* C11 as stated: for every configuration, historySize = 0 included, and every
\* frame detectPitch returns a frequency or null and never throws.
C11_DetectPitchNeverThrows ==
  lastOp = "detectPitch" => ret.kind \in {"number", "null"}

\* C12 as stated: an invalid configuration (historySize = 0 or a negative
\* threshold) is never installed as the active configuration.
C12_InvalidConfigNeverInstalled ==
  /\ historySize # 0
  /\ pitchTolerance >= 0
  /\ rmsThreshold >= 0
  /\ correlationThreshold >= 0
  /\ minCorrelationQuality >= 0

\* C13: every setSensitivity call leaves the history empty, so every entry of
\* the history was pushed after the last setSensitivity call.
C13_SetSensitivityResets ==
  /\ lastOp = "setSensitivity" => pitchHistory = <<>>
  /\ Len(pitchHistory) <= Len(streak)
  /\ pitchHistory = LastN(streak, Len(pitchHistory))

\* a setSensitivity call that found readings in the history
C13_Witness ==
  /\ lastOp = "setSensitivity"
  /\ clearedNonEmpty
  /\ pitchHistory = <<>>

\* C14 as stated: a frame whose RMS equals rmsThreshold is treated as below
\* threshold and autoCorrelate returns none for it.
C14_AtThresholdIsNone ==
  (DirectCall /\ RefAtThreshold(lastBuffer)) => lastRaw = NoPitch

\* C14 amended: a frame whose RMS equals rmsThreshold passes the gate and
\* autoCorrelate returns what the search yields; a frame strictly below the
\* threshold returns none.
C14_AtThresholdIsSearched ==
  /\ (DirectCall /\ RefAtThreshold(lastBuffer)) =>
       IF RefAccepted(lastBuffer)
       THEN lastRaw * RefBest(lastBuffer) = sampleRate
       ELSE lastRaw = NoPitch
  /\ (DirectCall /\ RefBelowThreshold(lastBuffer)) => lastRaw = NoPitch

\* a frame exactly at a positive threshold for which a pitch is returned
C14_Witness ==
  /\ DirectCall
  /\ rmsThreshold > 0
  /\ RefAtThreshold(lastBuffer)
  /\ lastRaw # NoPitch

\* C15: for an all-zero frame autoCorrelate yields none and detectPitch returns
\* null, also with rmsThreshold = 0 where the RMS gate does not fire.
C15_SilenceIsNone ==
  (lastOp = "detectPitch" /\ AllZero(lastBuffer)) =>
    (lastRaw = NoPitch /\ ret = Null)

\* silence searched with rmsThreshold = 0
C15_Witness ==
  /\ lastOp = "detectPitch"
  /\ AllZero(lastBuffer)
  /\ rmsThreshold = 0
  /\ ~TooQuiet(lastBuffer)
  /\ ret = Null

\* C16 as stated: for even N the search evaluates every lag from 1 through N/2
\* inclusive, so the last score computed is score(N/2).
C16_SearchesThroughHalf ==
  (SearchedCall /\ Len(lastBuffer) % 2 = 0) =>
    Search(lastBuffer).lastCorrelation = RefScore(lastBuffer, RefHalf(lastBuffer))

\* C16 amended: for even N the search evaluates the lags 1 through N/2 - 1; the
\* last score computed is score(N/2 - 1) and lag N/2 is never selected.
C16_SearchesBelowHalf ==
  (SearchedCall /\ Len(lastBuffer) % 2 = 0) =>
    /\ Search(lastBuffer).lastCorrelation
         = RefScore(lastBuffer, RefHalf(lastBuffer) - 1)
    /\ Search(lastBuffer).bestOffset # RefHalf(lastBuffer)
    /\ lastRaw # NoPitch =>
         \E k \in 1..(RefHalf(lastBuffer) - 1) : lastRaw * k = sampleRate

\* a frame whose score peaks at lag N/2 and for which none is returned
C16_Witness ==
  /\ SearchedCall
  /\ Len(lastBuffer) % 2 = 0
  /\ RefScore(lastBuffer, RefHalf(lastBuffer)) > correlationThreshold * RefHalf(lastBuffer)
  /\ RefDelta(lastBuffer, RefHalf(lastBuffer)) >= minCorrelationQuality * RefHalf(lastBuffer)
  /\ RefDelta(lastBuffer, RefHalf(lastBuffer)) > 0
  /\ lastRaw = NoPitch

\* C17: bestOffset is the reference selection (largest rising step among the
\* lags above correlationThreshold that rise over their predecessor, smallest
\* lag on ties), bestCorrelation is its step, and lastCorrelation follows the
\* score at every lag.
C17_BestIsReferenceSelection ==
  SearchedCall =>
    /\ Search(lastBuffer).bestOffset = RefBest(lastBuffer)
    /\ RefBest(lastBuffer) # -1 =>
         Search(lastBuffer).bestCorrelation = RefDelta(lastBuffer, RefBest(lastBuffer))
    /\ Search(lastBuffer).lastCorrelation
         = RefScore(lastBuffer, RefHalf(lastBuffer) - 1)

\* two candidates with the same rising step, the smaller lag returned
C17_Witness ==
  /\ SearchedCall
  /\ \E j, k \in RefCandidates(lastBuffer) :
       /\ j < k
       /\ RefDelta(lastBuffer, j) = RefDelta(lastBuffer, k)
       /\ Search(lastBuffer).bestOffset = j
       /\ lastRaw * j = sampleRate

\* C18 as stated: the lag selected is the first lag whose score is above
\* correlationThreshold and rising, never a later one.
C18_SelectsFirstPeak ==
  (SearchedCall /\ RefCandidates(lastBuffer) # {}) =>
    Search(lastBuffer).bestOffset = RefFirst(lastBuffer)

\* C18 amended: the lag selected is a candidate whose rising step no candidate
\* exceeds and no earlier candidate equals; it is the first candidate exactly
\* when no later candidate rises by strictly more.
C18_SelectsLargestRise ==
  (SearchedCall /\ RefCandidates(lastBuffer) # {}) =>
    LET b == lastBuffer
        k == Search(b).bestOffset
    IN  /\ k \in RefCandidates(b)
        /\ \A j \in RefCandidates(b) :
             /\ RefDelta(b, j) <= RefDelta(b, k)
             /\ j < k => RefDelta(b, j) < RefDelta(b, k)
        /\ (k = RefFirst(b)) <=>
             (\A j \in RefCandidates(b) : RefDelta(b, j) <= RefDelta(b, RefFirst(b)))

\* a later candidate with a larger step selected and returned
C18_Witness ==
  /\ SearchedCall
  /\ RefCandidates(lastBuffer) # {}
  /\ Search(lastBuffer).bestOffset > RefFirst(lastBuffer)
  /\ lastRaw * Search(lastBuffer).bestOffset = sampleRate

\* C19: past the gate autoCorrelate returns none when no candidate was found
\* or the best rising step is strictly below minCorrelationQuality, and
\* sampleRate / bestOffset otherwise; a step equal to minCorrelationQuality is
\* accepted.
C19_QualityGate ==
  SearchedCall =>
    IF \/ RefBest(lastBuffer) = -1
       \/ RefDelta(lastBuffer, RefBest(lastBuffer))
            < minCorrelationQuality * RefHalf(lastBuffer)
    THEN lastRaw = NoPitch
    ELSE lastRaw * RefBest(lastBuffer) = sampleRate

\* a best step exactly equal to a positive minCorrelationQuality, accepted
C19_Witness ==
  /\ SearchedCall
  /\ minCorrelationQuality > 0
  /\ RefBest(lastBuffer) # -1
  /\ RefDelta(lastBuffer, RefBest(lastBuffer))
       = minCorrelationQuality * RefHalf(lastBuffer)
  /\ lastRaw # NoPitch

\* C20: autoCorrelate has no side effects: a call leaves pitchHistory,
\* sampleRate and the five configuration fields unchanged, and it returns what
\* an earlier call with the same buffer under the same configuration returned,
\* whatever was called in between.
C20_AutoCorrelateIsPure ==
  [][lastOp' = "autoCorrelate" =>
       /\ UNCHANGED <<pitchHistory, sampleRate, config>>
       /\ memo.buffer = lastBuffer' => lastRaw' = memo.result]_vars

\* a buffer estimated again after the history changed in between
C20_Witness ==
  /\ DirectCall
  /\ memo.buffer = lastBuffer
  /\ memo.history # pitchHistory
  /\ lastRaw = memo.result
  /\ lastRaw # NoPitch

\* C29: in every reachable state every entry of pitchHistory is a raw
\* estimate inside the plausible range 60..1000; the none sentinel -1 is
\* never stored.
C29_HistoryEntriesPlausible ==
  \A i \in 1..Len(pitchHistory) :
    /\ pitchHistory[i] >= 60
    /\ pitchHistory[i] <= 1000
    /\ pitchHistory[i] # -1

\* a history of several entries whose newest is the reading just pushed
C29_Witness ==
  /\ lastOp = "detectPitch"
  /\ Len(pitchHistory) >= 2
  /\ pitchHistory[Len(pitchHistory)] = lastRaw
  /\ lastBuffer # <<>>

\* C30: the plausible range is inclusive at both ends: a raw estimate of
\* exactly 60 or exactly 1000 is pushed onto the history (the history on entry
\* is kept, less the evicted oldest entry), while a raw estimate strictly
\* below 60 or strictly above 1000 empties the history.
C30_RangeInclusive ==
  lastOp = "detectPitch" =>
    /\ (lastRaw = 60 \/ lastRaw = 1000) =>
         LET pushed == Append(prevHistory, lastRaw)
         IN  pitchHistory =
               LastN(pushed, IF Len(pushed) > historySize THEN historySize
                             ELSE Len(pushed))
    /\ (lastRaw < 60 \/ lastRaw > 1000) => pitchHistory = <<>>

\* a reading of exactly 1000 Hz appended to a history that already held one
C30_Witness ==
  /\ lastOp = "detectPitch"
  /\ lastRaw = 1000
  /\ prevHistory # <<>>
  /\ pitchHistory = Append(prevHistory, lastRaw)

\* a reading of exactly 60 Hz appended to a history that already held one
C30_FloorReached ==
  /\ lastOp = "detectPitch"
  /\ lastRaw = 60
  /\ prevHistory # <<>>
  /\ pitchHistory = Append(prevHistory, lastRaw)

\* C21: two freshly constructed detectors with the same sample rate, fed the
\* same sequence of frames, produce the same sequence of detectPitch results
\* and pass through the same pitchHistory states: every call replayed on the
\* second detector returns what the logged call on the first returned and
\* leaves the history the logged call left.
C21_ReplayReproduces ==
  [][(caller.mode = "replay" /\ caller'.log # caller.log) =>
       /\ ret' = Head(caller.log).ret
       /\ pitchHistory' = Head(caller.log).history]_vars

\* a replay run to its end, on which the second detector returned a number
\* from a window that had already slid
C21_Witness ==
  /\ caller.mode = "replay"
  /\ caller.turn = 2
  /\ caller.log = <<>>
  /\ ReturnedNumber
  /\ Len(streak) > historySize
  /\ ret = peer.ret
  /\ pitchHistory = peer.pitchHistory

\* what a detector that is used alone holds and returns after a detectPitch
\* call, from the plausible readings it was given since its last clearing event
AloneOutcome ==
  lastOp = "detectPitch" =>
    IF ~InRange(lastRaw) THEN pitchHistory = <<>> /\ ret = Null
    ELSE historySize >= 1 =>
           IF Len(streak) < historySize
           THEN pitchHistory = streak /\ ret = Null
           ELSE LET w == LastN(streak, historySize)
                IN  /\ pitchHistory = w
                    /\ IF WindowConsistent(w)
                       THEN ret.kind = "number" /\ IsMeanOf(ret, w)
                       ELSE ret = Null

\* C22: for two distinct instances, a detectPitch, reset or setSensitivity call
\* on one leaves the other's pitchHistory and configuration (indeed all of its
\* fields) unchanged, and what the called instance holds and returns is what
\* it would hold and return if it were used alone on its own inputs.
C22_InstancesIndependent ==
  [][/\ caller'.turn = caller.turn => peer' = peer
     /\ AloneOutcome']_vars

\* the second instance returns a number while the first holds a different
\* history under a different configuration
C22_Witness ==
  /\ peer # NoPeer
  /\ caller.turn = 2
  /\ ReturnedNumber
  /\ peer.pitchHistory # <<>>
  /\ peer.pitchHistory # pitchHistory
  /\ peer.historySize # historySize
  /\ peer.sampleRate # sampleRate

\* the frames of a sine of the given frequency and amplitude, at any start
SineFramesOf(frequency, amplitude) ==
  {SineFrame(frequency, amplitude, start) : start \in SineStarts}

\* C23: for a pure sine wave at frequency f sampled at rate R with amplitude
\* above the RMS threshold (peak amplitude a with a / sqrt(2) above it),
\* autoCorrelate under the default configuration returns a raw estimate within
\* a small tolerance (5 Hz) of f.
C23_SineEstimated ==
  \A frequency \in SineFrequencies, amplitude \in SineAmplitudes :
    (/\ DirectCall
     /\ lastBuffer \in SineFramesOf(frequency, amplitude)
     /\ amplitude * amplitude > 2 * rmsThreshold * rmsThreshold) =>
      Abs(lastRaw - frequency) <= 5

\* a full-scale sine whose estimate is its frequency
C23_FullScaleEstimated ==
  /\ DirectCall
  /\ lastBuffer \in SineFramesOf(2400, 100)
  /\ lastRaw = 2400

(* ------------------------- component claims ----------------------------- *)
\* C25: in the pitch-detector component, once start() has completed
\* successfully (isActive is true) the detection loop is running, that is, a
\* run of `detect` is requested, and a 'pitch-update' event has been
\* dispatched for each poll.
C25_LoopRunsWhileActive ==
  component.isActive =>
    /\ browser.frameRequests # {}
    /\ browser.updates = browser.polls

\* C26: after disconnectedCallback, once no start() is still awaiting
\* getUserMedia, the component is inactive, holds no microphone stream and no
\* AudioContext, and no stream or context it obtained is left live.
C26_DisconnectedReleasesAll ==
  (~browser.connected /\ browser.pendingStarts = 0) =>
    /\ ~component.isActive
    /\ component.stream = None
    /\ component.audioContext = None
    /\ browser.liveStreams = {}
    /\ browser.openContexts = {}

(* ------------------------- playback claims ------------------------------ *)
\* C27: at any time at most one oscillator of the playback module is started
\* and not yet stopped, and it is the one currentOscillator refers to
C27_OneCurrentOscillator ==
  \A oscillator \in browser.sounding : oscillator = playback.currentOscillator

\* C28: while the timer of the playNote call that set the playing state is
\* pending, playingNote is that call's note; and a timer clears only the playing
\* state that its own call set
C28_TimersClearOwnState ==
  /\ \A i \in 1..Len(browser.noteTimers) :
       browser.noteTimers[i].call = browser.setBy =>
         notePlayer.playingNote = browser.noteTimers[i].note
  /\ browser.cleared # <<>> => browser.cleared[1] = browser.cleared[2]

(* ------------------------- estimator bounds ----------------------------- *)
\* the frame repeats itself exactly at lag k over the compared samples
RepeatsAt(b, k) == \A i \in 1..RefHalf(b) : b[i] = b[i + k]

\* C31: for every frame and lag k, score(k) <= 1, with score(k) = 1 when
\* x[i] = x[i+k] for all compared i; lag 1 is never selected, bestOffset is
\* never 0, and every result of autoCorrelate other than -1 is sampleRate / k
\* for an integer k >= 2 below N/2, hence positive and at most sampleRate / 2.
C31_ScoreAtMostOne ==
  DirectCall =>
    /\ \A k \in 1..(Len(lastBuffer) - RefHalf(lastBuffer)) :
         /\ Correlation(lastBuffer, k) <= One * RefHalf(lastBuffer)
         /\ RepeatsAt(lastBuffer, k) =>
              Correlation(lastBuffer, k) = One * RefHalf(lastBuffer)
    /\ Search(lastBuffer).bestOffset \notin {0, 1}
    /\ lastRaw # NoPitch =>
         /\ \E k \in 2..(RefHalf(lastBuffer) - 1) : lastRaw = sampleRate \div k
         /\ lastRaw > 0
         /\ 2 * lastRaw <= sampleRate

\* a frame repeating at lag 2 whose estimate is sampleRate / 2, although its
\* score at lag 1 is above the correlation threshold
C31_Witness ==
  /\ DirectCall
  /\ RepeatsAt(lastBuffer, 2)
  /\ Correlation(lastBuffer, 1) > correlationThreshold * RefHalf(lastBuffer)
  /\ 2 * lastRaw = sampleRate

\* the frame is exactly periodic with period P: x[i+P] = x[i] for every valid i
PeriodicWith(b, P) == \A i \in 1..(Len(b) - P) : b[i + P] = b[i]

\* C32: for a frame that is exactly periodic with period P, 2 <= P < N/2, any
\* result of autoCorrelate other than -1 has bestOffset <= P, that is, it is
\* not below sampleRate / P.
C32_NoLockOnMultiple ==
  \A P \in 2..(RefHalf(lastBuffer) - 1) :
    (DirectCall /\ PeriodicWith(lastBuffer, P) /\ lastRaw # NoPitch) =>
      /\ Search(lastBuffer).bestOffset <= P
      /\ lastRaw >= sampleRate \div P

\* a frame of period 2 searched up to lag 4, twice its period, where the score
\* rises as much as at lag 2; the estimate is sampleRate / 2
C32_Witness ==
  /\ DirectCall
  /\ PeriodicWith(lastBuffer, 2)
  /\ RefHalf(lastBuffer) > 4
  /\ RefDelta(lastBuffer, 4) = RefDelta(lastBuffer, 2)
  /\ lastRaw = sampleRate \div 2

(* ------------------------------ reset ------------------------------------ *)
\* C33: reset() is idempotent, empties pitchHistory and leaves sampleRate and
\* the five configuration fields unchanged; after it the detector behaves like
\* a freshly constructed detector with the same configuration: the next
\* historySize-1 detectPitch calls return null, and every call replayed on
\* such a new detector returns what the call on the reset one returned and
\* leaves the history it left.
C33_ResetIsFreshStart ==
  [][/\ lastOp' = "reset" =>
          /\ pitchHistory' = <<>>
          /\ sampleRate' = sampleRate
          /\ config' = config
     /\ (lastOp = "reset" /\ lastOp' = "reset") => pitchHistory' = pitchHistory
     /\ (caller.mode = "record" /\ caller'.log # caller.log
           /\ Len(caller.log) < historySize - 1) => ret' = Null
     /\ (caller.mode = "replay" /\ caller'.log # caller.log) =>
          /\ ret' = Head(caller.log).ret
          /\ pitchHistory' = Head(caller.log).history]_vars

\* a used detector that was reset and then fed a run on which it returned a
\* number, and the new detector at the end of the same run
C33_Witness ==
  /\ caller.mode = "replay"
  /\ caller.log = <<>>
  /\ Len(peer.streak) >= historySize
  /\ historySize > 1
  /\ ReturnedNumber
  /\ ret = peer.ret
  /\ pitchHistory = peer.pitchHistory

(* --------------------- component claims, continued ---------------------- *)
\* a start() call that is not overlapped by another one ends in its catch
StartFails ==
  /\ browser.connected
  /\ ~component.isActive
  /\ browser.pendingStarts = 1
  /\ browser'.pendingStarts = 0
  /\ component'.errorMessage # NoError

\* C34: if the component's start() fails at any step (getUserMedia rejects,
\* or creating the AudioContext or wiring the audio graph throws after the
\* stream was obtained), the component stays inactive, reports the error and
\* holds no un-stopped microphone stream afterwards.
C34_FailedStartHoldsNothing ==
  [][StartFails =>
       /\ ~component'.isActive
       /\ component'.stream \notin browser'.liveStreams
       /\ browser'.liveStreams \subseteq browser.liveStreams]_vars

\* C35: a component instance holds at most one microphone stream and one
\* AudioContext at a time, and every stream acquired and not yet stopped is
\* the one a later stop() stops.
C35_OneStreamOneContext ==
  /\ Cardinality(browser.liveStreams) <= 1
  /\ Cardinality(browser.openContexts) <= 1
  /\ browser.liveStreams \subseteq {component.stream}
  /\ browser.openContexts \subseteq {component.audioContext}

\* C36: in VoiceFeedback, isMonitoring implies isActive and a non-null
\* gainNode in every reachable state, and toggleMonitoring never dereferences
\* a null gainNode, whatever stop() does while it awaits.
C36_MonitoringNeedsGainNode ==
  /\ voiceFeedback.isMonitoring =>
       (voiceFeedback.isActive /\ voiceFeedback.gainNode # None)
  /\ browser.feedback.nullDeref # "gainNode"

\* C37: the playback module's 'playback-start' and 'playback-stop' events
\* strictly alternate, beginning with 'playback-start', and isPlaying is true
\* exactly between a start event and the next stop event.
C37_EventsAlternate ==
  /\ ~browser.repeatedEvent
  /\ playback.isPlaying <=> browser.lastEvent = "playback-start"

====
